---- MODULE Spec2Model ----
(***************************************************************************)
(* ReadMatic: a README generator.  The model follows the sources           *)
(*   FileSystemAnalyzer  (scanDirectoryStructure, detectLanguage,          *)
(*                        findDependencyManifests, analyzeProject)         *)
(*   ConfigurationLoader (applySectionExclusion, applyCustomContent)       *)
(*   MarkdownFormatter   (assembleSections)                                *)
(*   ContentGenerator, cli main                                            *)
(*                                                                         *)
(* Representation of data                                                  *)
(*   string    a sequence of atoms; an atom is either one whitespace       *)
(*             character (" ", "\n", "\t") or a non-empty run of           *)
(*             characters that neither begins nor ends with whitespace.    *)
(*             Concatenation is \o, the empty string is <<>>, a string is  *)
(*             truthy iff it is not <<>>.                                  *)
(*   name      a string whose atoms are split at every '.', the dot being  *)
(*             an atom of its own: ".gitignore" is <<".", "gitignore">>.   *)
(*   path      a sequence of names; path.join appends, basename is last.   *)
(*   mapping   a function from a finite set of keys (an object's own       *)
(*             properties); a missing key reads as undefined.              *)
(*   file      its state (absent, unreadable, malformed, valid) and, when  *)
(*             valid, its content: the parsed object of a JSON file, the   *)
(*             text of requirements.txt, the assignments of Cargo.toml.    *)
(***************************************************************************)
EXTENDS Integers, Sequences, FiniteSets, TLC

VARIABLES
  pc,            \* position of the running program
  fs,            \* the directory tree on disk: inode -> [kind, parent]
  files,         \* what the files main reads at the root hold
  stack,         \* active (expanding) calls of scanDirectoryStructure
  scanMaxDepth,  \* the maxDepth argument of the running scan
  structure,     \* the DirectoryNode returned by the outermost call
  calls,         \* number of calls of scanDirectoryStructure made so far
  deepest,       \* greatest currentDepth any call was made with
  metadata,      \* the ProjectMetadata analyzeProject returned
  generated,     \* the sections mapping an operation received
  config,        \* the GeneratorConfig in force (arguments of the merger)
  sections,      \* the sections mapping an operation returned
  readme,        \* the assembled document
  input,         \* the argument of a function that is called on its own
  output,        \* what the successive calls of that function returned
  readmeFile,    \* README.md of the target directory, as it is on disk
  console,       \* the lines main has printed
  stdin          \* the lines the user typed and how many main has read

vars == <<pc, fs, files, stack, scanMaxDepth, structure, calls, deepest,
          metadata, generated, config, sections, readme, input, output,
          readmeFile, console, stdin>>

scanVars == <<stack, scanMaxDepth, structure, calls, deepest>>
diskVars == <<fs, files>>
mergeVars == <<metadata, generated, config, sections, readme>>
callVars == <<input, output>>
ioVars == <<readmeFile, console, stdin>>

----------------------------------------------------------------------------
(* Bounds *)

MaxInodes == 4
MaxScanDepth == 3
MaxSections == 3
MaxExclude == 2
MaxCustom == 2
MaxRunInodes == 3
MaxRunExclude == 1
MaxRunCustom == 1
MaxFiles == 3
MaxManifestInodes == 4
MaxManifests == 3
MaxAnalyzeInodes == 4
MaxCalls == 2
MaxScripts == 2
MaxConfigDepth == 4
MaxTreeInodes == 5
MaxRenderDepth == 3
MaxClassifyInodes == 4
MaxCycleInodes == 3
MaxCliInodes == 3
MaxDeepInodes == 5

----------------------------------------------------------------------------
(* Strings *)

NL == "\n"
SP == " "
TAB == "\t"
DOT == "."

Whitespace == {SP, NL, TAB}

\* an optional value: null, or one value
JsNull == <<>>
Some(v) == <<v>>

Range(s) == {s[i] : i \in 1..Len(s)}

Last(s) == s[Len(s)]

\* String.prototype.startsWith for a one-character prefix
StartsWith(name, ch) == Len(name) > 0 /\ name[1] = ch

----------------------------------------------------------------------------
(* The file system.                                                        *)
(* Every entry kind fixes the entry's name, what statSync reports for it   *)
(* and whether readdirSync succeeds on it.                                 *)

EntryKind ==
  [ proj  |-> [name |-> <<"proj">>,               stat |-> "dir",    listable |-> TRUE],
    src   |-> [name |-> <<"src">>,                stat |-> "dir",    listable |-> TRUE],
    locked |-> [name |-> <<"locked">>,            stat |-> "dir",    listable |-> FALSE],
    ats   |-> [name |-> <<"a", DOT, "ts">>,       stat |-> "file",   listable |-> FALSE],
    gitignore |-> [name |-> <<DOT, "gitignore">>, stat |-> "file",   listable |-> FALSE],
    git   |-> [name |-> <<DOT, "git">>,           stat |-> "dir",    listable |-> TRUE],
    node_modules |-> [name |-> <<"node_modules">>, stat |-> "dir",   listable |-> TRUE],
    dist  |-> [name |-> <<"dist">>,               stat |-> "dir",    listable |-> TRUE],
    gone  |-> [name |-> <<"gone">>,               stat |-> "ENOENT", listable |-> FALSE],
    pkg   |-> [name |-> <<"package", DOT, "json">>, stat |-> "file", listable |-> FALSE],
    req   |-> [name |-> <<"requirements", DOT, "txt">>, stat |-> "file", listable |-> FALSE],
    cargo |-> [name |-> <<"Cargo", DOT, "toml">>, stat |-> "file",   listable |-> FALSE],
    tests |-> [name |-> <<"Tests">>,              stat |-> "dir",    listable |-> TRUE],
    dotconfig |-> [name |-> <<DOT, "config">>,    stat |-> "dir",    listable |-> TRUE],
    testfile |-> [name |-> <<"test">>,            stat |-> "file",   listable |-> FALSE],
    loop  |-> [name |-> <<"loop">>,               stat |-> "dir",    listable |-> TRUE],
    up    |-> [name |-> <<"up">>,                 stat |-> "dir",    listable |-> TRUE],
    readme |-> [name |-> <<"README", DOT, "md">>, stat |-> "file",   listable |-> FALSE] ]

\* kinds an entry of a directory may have, and kinds the scanned root may have
ChildKinds == {"src", "locked", "ats", "gitignore", "git", "node_modules", "dist", "gone"}
RootKinds == {"proj", "git", "locked", "ats", "gone"}

\* the directory the scanned root lives in
RootParent == << <<"work">> >>

Inodes(f) == DOMAIN f
RootInode == 1

NameOf(f, i) == EntryKind[f[i].kind].name
StatOf(f, i) == EntryKind[f[i].kind].stat
Listable(f, i) == EntryKind[f[i].kind].listable

\* the entries of directory i, in the order of the directory listing
ChildInodes(f, i) == {c \in Inodes(f) : f[c].parent = i}

\* symbolic links to a directory above them: loop names the directory it
\* lies in, up names the root. statSync and readdirSync follow the link.
LinkKinds == {"loop", "up"}

Target(f, i) ==
  IF f[i].kind = "loop" THEN f[i].parent
  ELSE IF f[i].kind = "up" THEN RootInode
  ELSE i

RECURSIVE SortedSeq(_)
SortedSeq(S) ==
  IF S = {} THEN <<>>
  ELSE LET m == CHOOSE x \in S : \A y \in S : x <= y
       IN <<m>> \o SortedSeq(S \ {m})

\* Entries live in listable directories and the names within one directory
\* are distinct.
\* the trees of exactly n inodes, built by adding one entry at a time
RECURSIVE FsOfSize(_, _, _)
FsOfSize(n, rootKinds, childKinds) ==
  IF n = 1
  THEN { [i \in {RootInode} |-> [kind |-> k, parent |-> 0]] : k \in rootKinds }
  ELSE { [i \in 1..n |-> IF i < n THEN x[1][i] ELSE [kind |-> x[2], parent |-> x[3]]] :
           x \in { y \in FsOfSize(n - 1, rootKinds, childKinds) \X childKinds \X (1..(n - 1)) :
                     /\ StatOf(y[1], y[3]) = "dir"
                     /\ Listable(y[1], y[3])
                     /\ y[1][y[3]].kind \notin LinkKinds
                     /\ \A j \in ChildInodes(y[1], y[3]) : y[1][j].kind # y[2] } }

FsFamily(maxInodes, rootKinds, childKinds) ==
  UNION { FsOfSize(n, rootKinds, childKinds) : n \in 1..maxInodes }

\* fs.statSync: "file", "dir", or "ENOENT" when the call throws
statSync(f, i) == StatOf(f, i)

\* the entry can be reached: statSync does not throw
Accessible(f, i) == StatOf(f, i) # "ENOENT"

\* fs.readdirSync: the names of the entries, unless the call throws
readdirSync(f, i) ==
  IF Listable(f, i)
  THEN LET cs == SortedSeq(ChildInodes(f, Target(f, i)))
       IN [threw |-> FALSE, names |-> [k \in 1..Len(cs) |-> NameOf(f, cs[k])]]
  ELSE [threw |-> TRUE, names |-> <<>>]

\* the inode a directory entry names
Lookup(f, dir, name) ==
  CHOOSE c \in ChildInodes(f, Target(f, dir)) : NameOf(f, c) = name

basename(path) == Last(path)
join(path, entry) == Append(path, entry)

----------------------------------------------------------------------------
(* FileSystemAnalyzer.scanDirectoryStructure                                *)

\* variant of the leaf whose path is the base name only
FileNode_baseNamePath(name, path) ==
  [name |-> name, type |-> "file", children |-> <<>>, path |-> <<name>>]

FileNode(name, path) ==
  [name |-> name, type |-> "file", children |-> <<>>, path |-> path]

DirNode(name, path) ==
  [name |-> name, type |-> "directory", children |-> <<>>, path |-> path]

\* variants of the depth test: an off-by-one comparison, and no test at all
AtDepthLimit_offByOne(currentDepth, maxDepth) == currentDepth > maxDepth

AtDepthLimit_unbounded(currentDepth, maxDepth) == FALSE

\* the test that stops the recursion
AtDepthLimit(currentDepth, maxDepth) == currentDepth >= maxDepth

\* variant of the skip tests without the test for the build output directory
SkippedEntry_keepsDist(entry) ==
  \/ StartsWith(entry, DOT) /\ entry # <<DOT, "gitignore">>
  \/ entry = <<"node_modules">>

\* variant that keeps the dot entries when includeHiddenFiles is set
SkippedEntry_honoursOption(entry) ==
  \/ /\ ~config.includeHiddenFiles
     /\ StartsWith(entry, DOT) /\ entry # <<DOT, "gitignore">>
  \/ entry = <<"node_modules">>
  \/ entry = <<"dist">>

\* the three tests that skip an entry of the listing
SkippedEntry(entry) ==
  \/ StartsWith(entry, DOT) /\ entry # <<DOT, "gitignore">>
  \/ entry = <<"node_modules">>
  \/ entry = <<"dist">>

\* One call up to its loop over the listing.  The call either throws (statSync
\* failed), returns a node at once, or starts to expand a directory.
ScanCall(f, i, rootPath, maxDepth, currentDepth) ==
  LET stats == statSync(f, i)
      name == basename(rootPath)
      listing == readdirSync(f, i)
  IN IF stats = "ENOENT" THEN [outcome |-> "throw"]
     ELSE IF stats = "file"
       THEN [outcome |-> "return", node |-> FileNode(name, rootPath)]
     ELSE IF AtDepthLimit(currentDepth, maxDepth)
       THEN [outcome |-> "return", node |-> DirNode(name, rootPath)]
     ELSE IF listing.threw
       THEN [outcome |-> "return", node |-> DirNode(name, rootPath)]
     ELSE [outcome |-> "expand",
           frame |-> [inode |-> i, depth |-> currentDepth,
                      node |-> DirNode(name, rootPath), entries |-> listing.names]]

Top == stack[Len(stack)]

ReplaceTop(frame) == [stack EXCEPT ![Len(stack)] = frame]

\* node.children.push(childNode) in the calling frame, then on to the next entry
PushChild(frame, childNode) ==
  [frame EXCEPT !.node.children = Append(@, childNode), !.entries = Tail(@)]

\* variant in which a failing entry ends the loop over the listing
SkipFailedEntry_endsLoop(frame) == [frame EXCEPT !.entries = <<>>]

\* the catch around the recursive call: the entry is left out
SkipFailedEntry(frame) == [frame EXCEPT !.entries = Tail(@)]

Max(a, b) == IF a >= b THEN a ELSE b

\* the outermost call, scanDirectoryStructure(rootPath, maxDepth)
ScanEnter ==
  /\ pc = "scan"
  /\ LET rootPath == join(RootParent, NameOf(fs, RootInode))
         r == ScanCall(fs, RootInode, rootPath, scanMaxDepth, 0)
     IN /\ calls' = calls + 1
        /\ deepest' = Max(deepest, 0)
        /\ CASE r.outcome = "throw" ->
                  /\ pc' = "threw"
                  /\ UNCHANGED <<stack, structure>>
             [] r.outcome = "return" ->
                  /\ pc' = "scanned"
                  /\ structure' = r.node
                  /\ UNCHANGED stack
             [] r.outcome = "expand" ->
                  /\ pc' = "scanning"
                  /\ stack' = <<r.frame>>
                  /\ UNCHANGED structure
  /\ UNCHANGED <<fs, files, scanMaxDepth>>
  /\ UNCHANGED <<mergeVars, callVars, ioVars>>

\* one iteration of the loop that ends in `continue`
ScanSkipEntry ==
  /\ pc = "scanning"
  /\ Top.entries # <<>>
  /\ SkippedEntry(Head(Top.entries))
  /\ stack' = ReplaceTop([Top EXCEPT !.entries = Tail(@)])
  /\ UNCHANGED <<pc, fs, files, scanMaxDepth, structure, calls, deepest>>
  /\ UNCHANGED <<mergeVars, callVars, ioVars>>

\* one iteration of the loop that makes the recursive call
ScanCallEntry ==
  /\ pc = "scanning"
  /\ Top.entries # <<>>
  /\ ~SkippedEntry(Head(Top.entries))
  /\ LET entry == Head(Top.entries)
         fullPath == join(Top.node.path, entry)
         child == Lookup(fs, Top.inode, entry)
         r == ScanCall(fs, child, fullPath, scanMaxDepth, Top.depth + 1)
     IN /\ calls' = calls + 1
        /\ deepest' = Max(deepest, Top.depth + 1)
        /\ stack' = CASE r.outcome = "throw" -> ReplaceTop(SkipFailedEntry(Top))
                      [] r.outcome = "return" -> ReplaceTop(PushChild(Top, r.node))
                      [] r.outcome = "expand" -> Append(stack, r.frame)
  /\ UNCHANGED <<pc, fs, files, scanMaxDepth, structure>>
  /\ UNCHANGED <<mergeVars, callVars, ioVars>>

\* the loop is over: `return node`
ScanReturn ==
  /\ pc = "scanning"
  /\ Top.entries = <<>>
  /\ IF Len(stack) = 1
     THEN /\ structure' = Top.node
          /\ stack' = <<>>
          /\ pc' = "scanned"
     ELSE /\ stack' = [SubSeq(stack, 1, Len(stack) - 1)
                         EXCEPT ![Len(stack) - 1] = PushChild(@, Top.node)]
          /\ UNCHANGED <<pc, structure>>
  /\ UNCHANGED <<fs, files, scanMaxDepth, calls, deepest>>
  /\ UNCHANGED <<mergeVars, callVars, ioVars>>

NoNode == [name |-> <<>>, type |-> "none", children |-> <<>>, path |-> <<>>]

DefaultConfig ==
  [excludeSections |-> <<>>, customContent |-> <<>>, maxDepth |-> 3,
   includeHiddenFiles |-> FALSE]

\* the states of a file main or the analyzer reads: not there; there, and
\* readFileSync throws; read, and JSON.parse throws or yields null, whose
\* first property read throws; read and parsed
AbsentFile == [state |-> "absent"]
UnreadableFile == [state |-> "unreadable"]
MalformedFile == [state |-> "malformed"]
ValidFile(content) == [state |-> "valid", content |-> content]

\* a file that is read and parsed at first, while the reads numbered in
\* failing (the second and later reads of one run) throw
FlakyFile(content, failing) ==
  [state |-> "valid", content |-> content, failing |-> failing]

\* the k-th read of the file in one run throws
ReadFails(file, k) ==
  file.state # "valid" \/ ("failing" \in DOMAIN file /\ k \in file.failing)

NoFiles ==
  [rc |-> AbsentFile, pkg |-> AbsentFile, req |-> AbsentFile, cargo |-> AbsentFile]

NoMetadata == <<>>

\* no function is being called on its own
CallIdle ==
  /\ input = <<>>
  /\ output = <<>>

\* nothing typed at the terminal, nothing read from it
NoInput == [typed |-> <<>>, read |-> 0]

\* main is not running: no README.md, nothing printed, nothing typed
IoIdle ==
  /\ readmeFile = AbsentFile
  /\ console = <<>>
  /\ stdin = NoInput

MergeIdle ==
  /\ metadata = NoMetadata
  /\ generated = <<>>
  /\ config = DefaultConfig
  /\ sections = <<>>
  /\ readme = <<>>

\* a scan about to start on the directory tree f with depth limit d
ScanStarts(f, d) ==
  /\ pc = "scan"
  /\ fs = f
  /\ files = NoFiles
  /\ scanMaxDepth = d
  /\ stack = <<>>
  /\ structure = NoNode
  /\ calls = 0
  /\ deepest = 0
  /\ MergeIdle
  /\ CallIdle
  /\ IoIdle

ScanInit ==
  \E f \in FsFamily(MaxInodes, RootKinds, ChildKinds), d \in 0..MaxScanDepth :
    ScanStarts(f, d)

\* the kinds of entry that decide how a scan proceeds: a directory to descend
\* into, a file, a skipped directory, an entry whose stat fails
TerminationKinds == {"src", "ats", "dist", "gone"}

FairScanInit ==
  \E f \in FsFamily(MaxInodes, RootKinds, TerminationKinds), d \in 0..MaxScanDepth :
    ScanStarts(f, d)

\* directory trees with symbolic links that close a cycle
CycleKinds == {"src", "ats", "dist", "loop", "up"}

CycleScanInit ==
  \E f \in FsFamily(MaxCycleInodes, {"proj"}, CycleKinds), d \in 0..MaxScanDepth :
    ScanStarts(f, d)

ScanNext ==
  \/ ScanEnter
  \/ ScanSkipEntry
  \/ ScanCallEntry
  \/ ScanReturn

ScanSpec == ScanInit /\ [][ScanNext]_vars

\* a call that has started always runs on: the program is sequential
FairScanSpec == FairScanInit /\ [][ScanNext]_vars /\ WF_vars(ScanNext)

CycleScanSpec == CycleScanInit /\ [][ScanNext]_vars /\ WF_vars(ScanNext)

----------------------------------------------------------------------------
(* Mappings (objects used as dictionaries)                                  *)

EmptyMap == <<>>

Has(map, key) == key \in DOMAIN map

\* map[key] = value
Put(map, key, value) ==
  [k \in DOMAIN map \cup {key} |-> IF k = key THEN value ELSE map[k]]

\* Array.prototype.includes
includes(arr, x) == \E i \in 1..Len(arr) : arr[i] = x

\* a string is truthy iff it is not empty
Truthy(str) == str # <<>>

----------------------------------------------------------------------------
(* MarkdownFormatter.assembleSections                                       *)

RECURSIVE trimStart(_)
trimStart(str) ==
  IF str # <<>> /\ Head(str) \in Whitespace THEN trimStart(Tail(str)) ELSE str

RECURSIVE trimEnd(_)
trimEnd(str) ==
  IF str # <<>> /\ Last(str) \in Whitespace
  THEN trimEnd(SubSeq(str, 1, Len(str) - 1))
  ELSE str

\* String.prototype.trim
trim(str) == trimEnd(trimStart(str))

\* variant of the order with usage ahead of installation
SectionOrder_usageFirst ==
  <<"title", "description", "usage", "installation", "structure", "license">>

SectionOrder ==
  <<"title", "description", "installation", "usage", "structure", "license">>

\* the loop over `order`, from position i on, with `result` built so far
RECURSIVE AssembleLoop(_, _, _)
AssembleLoop(secs, i, result) ==
  IF i > Len(SectionOrder) THEN result
  ELSE LET key == SectionOrder[i]
       IN IF Has(secs, key) /\ Truthy(secs[key])
          THEN AssembleLoop(secs, i + 1, result \o secs[key])
          ELSE AssembleLoop(secs, i + 1, result)

assembleSections(secs) == trim(AssembleLoop(secs, 1, <<>>)) \o <<NL>>

----------------------------------------------------------------------------
(* ConfigurationLoader.applySectionExclusion, applyCustomContent            *)

\* the loop over Object.entries(sections); `todo` holds the keys still to visit
RECURSIVE ExclusionLoop(_, _, _, _)
ExclusionLoop(secs, todo, excludeSections, result) ==
  IF todo = {} THEN result
  ELSE LET key == CHOOSE k \in todo : TRUE
       IN IF ~includes(excludeSections, key)
          THEN ExclusionLoop(secs, todo \ {key}, excludeSections,
                             Put(result, key, secs[key]))
          ELSE ExclusionLoop(secs, todo \ {key}, excludeSections, result)

\* variant that tests the first excluded key only
applySectionExclusion_firstOnly(secs, excludeSections) ==
  ExclusionLoop(secs, DOMAIN secs,
                IF excludeSections = <<>> THEN <<>> ELSE <<Head(excludeSections)>>,
                EmptyMap)

applySectionExclusion(secs, excludeSections) ==
  ExclusionLoop(secs, DOMAIN secs, excludeSections, EmptyMap)

\* the loop over Object.entries(customContent)
RECURSIVE CustomLoop(_, _, _)
CustomLoop(customContent, todo, result) ==
  IF todo = {} THEN result
  ELSE LET key == CHOOSE k \in todo : TRUE
       IN IF Truthy(customContent[key])
          THEN CustomLoop(customContent, todo \ {key},
                          Put(result, key, customContent[key]))
          ELSE CustomLoop(customContent, todo \ {key}, result)

\* variant that takes every custom value, the empty string included
applyCustomContent_takesEmpty(secs, customContent) ==
  [k \in DOMAIN secs \cup DOMAIN customContent |->
     IF k \in DOMAIN customContent THEN customContent[k] ELSE secs[k]]

applyCustomContent(secs, customContent) ==
  CustomLoop(customContent, DOMAIN customContent, secs)

----------------------------------------------------------------------------
(* The merger and the assembler applied to arbitrary arguments              *)

SectionKeys == Range(SectionOrder)

\* section keys and one key that names no section
AnyKeys == SectionKeys \cup {"extra"}

\* the keys the arguments excludeSections and customContent are drawn from
ArgKeys == {"title", "description", "license", "extra"}

\* the contents a section may have: empty, plain, padded with whitespace
\* (with whitespace inside), and blank
SectionTexts(key) == { <<>>, <<key>>, <<NL, key, SP, key, NL>>, <<SP>> }

CustomTexts(key) == { <<>>, <<"custom", SP, key>> }

\* the mappings over at most n of the given keys; texts[k] holds the values
\* key k may take
MappingsOver(keys, n, texts) ==
  UNION { {m \in [dom -> UNION {texts[k] : k \in dom}] :
             \A k \in dom : m[k] \in texts[k]}
          : dom \in {d \in SUBSET keys : Cardinality(d) <= n} }

SeqsUpTo(S, n) == UNION { [1..m -> S] : m \in 0..n }

NoFs == [i \in {RootInode} |-> [kind |-> "proj", parent |-> 0]]

ScanIdle ==
  /\ fs = NoFs
  /\ files = NoFiles
  /\ stack = <<>>
  /\ scanMaxDepth = 0
  /\ structure = NoNode
  /\ calls = 0
  /\ deepest = 0

MergerInit ==
  /\ pc = "input"
  /\ generated \in MappingsOver(AnyKeys, MaxSections, [k \in AnyKeys |-> SectionTexts(k)])
  /\ metadata = NoMetadata
  /\ config = DefaultConfig
  /\ sections = EmptyMap
  /\ readme = <<>>
  /\ ScanIdle
  /\ CallIdle
  /\ IoIdle

CallExclusion ==
  /\ pc = "input"
  /\ \E ex \in SeqsUpTo(ArgKeys, MaxExclude) :
       /\ config' = [config EXCEPT !.excludeSections = ex]
       /\ sections' = applySectionExclusion(generated, ex)
  /\ pc' = "excluded"
  /\ UNCHANGED <<metadata, generated, readme>>
  /\ UNCHANGED <<scanVars, diskVars, callVars, ioVars>>

CallCustomContent ==
  /\ pc = "input"
  /\ \E cc \in MappingsOver(ArgKeys, MaxCustom, [k \in ArgKeys |-> CustomTexts(k)]) :
       /\ config' = [config EXCEPT !.customContent = cc]
       /\ sections' = applyCustomContent(generated, cc)
  /\ pc' = "customized"
  /\ UNCHANGED <<metadata, generated, readme>>
  /\ UNCHANGED <<scanVars, diskVars, callVars, ioVars>>

CallAssemble ==
  /\ pc = "input"
  /\ readme' = assembleSections(generated)
  /\ pc' = "assembled"
  /\ UNCHANGED <<metadata, generated, config, sections>>
  /\ UNCHANGED <<scanVars, diskVars, callVars, ioVars>>

MergerNext ==
  \/ CallExclusion
  \/ CallCustomContent
  \/ CallAssemble

MergerSpec == MergerInit /\ [][MergerNext]_vars

----------------------------------------------------------------------------
(* FileSystemAnalyzer.detectLanguage, collectFiles                          *)

\* the upper-case atoms that occur in the file names of the model
UpperCase == [TS |-> "ts", JS |-> "js", PY |-> "py", Tests |-> "tests"]

\* String.prototype.toLowerCase
toLowerCase(str) ==
  [i \in 1..Len(str) |->
     IF str[i] \in DOMAIN UpperCase THEN UpperCase[str[i]] ELSE str[i]]

\* path.extname: from the last '.' of the base name to its end, and empty
\* when there is no '.' or the only one is the first character
extname(path) ==
  LET name == basename(path)
      dots == {i \in 1..Len(name) : name[i] = DOT}
      last == CHOOSE i \in dots : \A j \in dots : j <= i
  IN IF dots = {} THEN <<>>
     ELSE IF last = 1 THEN <<>>
     ELSE SubSeq(name, last, Len(name))

\* the first loop: extensionCounts in the order its keys were inserted
languageMap ==
  [ts |-> <<"TypeScript">>, js |-> <<"JavaScript">>, py |-> <<"Python">>,
   rs |-> <<"Rust">>, go |-> <<"Go">>, java |-> <<"Java">>, cpp |-> <<"C++">>,
   c |-> <<"C">>, rb |-> <<"Ruby">>, php |-> <<"PHP">>]

\* languageMap[ext], undefined being JsNull
LanguageOf(ext) ==
  IF Len(ext) = 2 /\ ext[1] = DOT /\ ext[2] \in DOMAIN languageMap
  THEN Some(languageMap[ext[2]]) ELSE JsNull

\* variant of the first loop that tallies only the extensions of the table
RECURSIVE CountExtensions_recognizedOnly(_, _)
CountExtensions_recognizedOnly(fileList, extensionCounts) ==
  IF fileList = <<>> THEN extensionCounts
  ELSE LET ext == toLowerCase(extname(Head(fileList)))
           seen == \E i \in 1..Len(extensionCounts) : extensionCounts[i].ext = ext
       IN CountExtensions_recognizedOnly(Tail(fileList),
            IF ~Truthy(ext) \/ LanguageOf(ext) = JsNull THEN extensionCounts
            ELSE IF seen
              THEN [i \in 1..Len(extensionCounts) |->
                      IF extensionCounts[i].ext = ext
                      THEN [extensionCounts[i] EXCEPT !.count = @ + 1]
                      ELSE extensionCounts[i]]
              ELSE Append(extensionCounts, [ext |-> ext, count |-> 1]))

RECURSIVE CountExtensions(_, _)
CountExtensions(fileList, extensionCounts) ==
  IF fileList = <<>> THEN extensionCounts
  ELSE LET ext == toLowerCase(extname(Head(fileList)))
           seen == \E i \in 1..Len(extensionCounts) : extensionCounts[i].ext = ext
       IN CountExtensions(Tail(fileList),
            IF ~Truthy(ext) THEN extensionCounts
            ELSE IF seen
              THEN [i \in 1..Len(extensionCounts) |->
                      IF extensionCounts[i].ext = ext
                      THEN [extensionCounts[i] EXCEPT !.count = @ + 1]
                      ELSE extensionCounts[i]]
              ELSE Append(extensionCounts, [ext |-> ext, count |-> 1]))

\* variant of the second loop in which a later extension wins a tie
RECURSIVE PrimaryLoop_lastTieWins(_, _, _)
PrimaryLoop_lastTieWins(entries, maxCount, primaryExt) ==
  IF entries = <<>> THEN primaryExt
  ELSE IF Head(entries).count >= maxCount
       THEN PrimaryLoop_lastTieWins(Tail(entries), Head(entries).count, Head(entries).ext)
       ELSE PrimaryLoop_lastTieWins(Tail(entries), maxCount, primaryExt)

\* the second loop: the first extension whose count no other exceeds
RECURSIVE PrimaryLoop(_, _, _)
PrimaryLoop(entries, maxCount, primaryExt) ==
  IF entries = <<>> THEN primaryExt
  ELSE IF Head(entries).count > maxCount
       THEN PrimaryLoop(Tail(entries), Head(entries).count, Head(entries).ext)
       ELSE PrimaryLoop(Tail(entries), maxCount, primaryExt)

detectLanguage(fileList) ==
  LET primaryExt == PrimaryLoop(CountExtensions(fileList, <<>>), 0, <<>>)
      label == LanguageOf(primaryExt)
  IN IF label # JsNull /\ Truthy(label[1]) THEN label[1] ELSE <<"Unknown">>

RECURSIVE collectFiles(_)
RECURSIVE CollectChildren(_)
CollectChildren(children) ==
  IF children = <<>> THEN <<>>
  ELSE collectFiles(Head(children)) \o CollectChildren(Tail(children))

collectFiles(node) ==
  IF node.type = "file" THEN <<node.path>>
  ELSE CollectChildren(node.children)

----------------------------------------------------------------------------
(* FileSystemAnalyzer.findDependencyManifests, analyzeProject               *)

\* fs.existsSync for an entry of the root directory
existsSync(f, name) ==
  \E c \in ChildInodes(f, RootInode) : NameOf(f, c) = name /\ Accessible(f, c)

\* variant that falls back only when the field is missing (obj.field ?? fallback)
StringOr_nullish(obj, field, fallback) ==
  IF Has(obj, field) THEN obj[field] ELSE fallback

\* obj.field || fallback, for a string field of a parsed object
StringOr(obj, field, fallback) ==
  IF Has(obj, field) /\ Truthy(obj[field]) THEN obj[field] ELSE fallback

\* obj.field || fallback, for a field that holds an object or an array
ObjectOr(obj, field, fallback) ==
  IF Has(obj, field) THEN obj[field] ELSE fallback

\* Object.keys of a mapping kept as a sequence of entries
Keys(entries) == [i \in 1..Len(entries) |-> entries[i][1]]

NpmManifest(fl, rootPath) ==
  LET packageJsonPath == join(rootPath, EntryKind["pkg"].name)
      content == fl.pkg.content
  IN IF fl.pkg.state = "valid"
     THEN << [type |-> "npm",
              filePath |-> packageJsonPath,
              projectName |-> StringOr(content, "name", basename(rootPath)),
              description |-> StringOr(content, "description", <<>>),
              dependencies |-> Keys(ObjectOr(content, "dependencies", <<>>))] >>
     ELSE <<>>

\* String.prototype.split for a one-character separator
RECURSIVE SplitLoop(_, _, _)
SplitLoop(str, sep, current) ==
  IF str = <<>> THEN <<current>>
  ELSE IF Head(str) = sep
       THEN <<current>> \o SplitLoop(Tail(str), sep, <<>>)
       ELSE SplitLoop(Tail(str), sep, Append(current, Head(str)))

split(str, sep) == SplitLoop(str, sep, <<>>)

\* the lines of requirements.txt that are kept
KeptLine(line) == Truthy(trim(line)) /\ ~StartsWith(line, "#")

PipManifest(fl, rootPath) ==
  LET requirementsPath == join(rootPath, EntryKind["req"].name)
  IN IF fl.req.state = "valid"
     THEN << [type |-> "pip",
              filePath |-> requirementsPath,
              projectName |-> basename(rootPath),
              description |-> <<>>,
              dependencies |-> SelectSeq(split(fl.req.content, NL), KeptLine)] >>
     ELSE <<>>

\* content.match(/key\s*=\s*"([^"]+)"/): the first assignment of a non-empty
\* string to the key; the file is kept as its sequence of assignments
RECURSIVE FirstMatch(_, _)
FirstMatch(assignments, key) ==
  IF assignments = <<>> THEN JsNull
  ELSE IF Head(assignments).key = key /\ Head(assignments).value # <<>>
       THEN Some(Head(assignments).value)
       ELSE FirstMatch(Tail(assignments), key)

CargoManifest(fl, rootPath) ==
  LET cargoPath == join(rootPath, EntryKind["cargo"].name)
      nameMatch == FirstMatch(fl.cargo.content, "name")
      descMatch == FirstMatch(fl.cargo.content, "description")
  IN IF fl.cargo.state = "valid"
     THEN << [type |-> "cargo",
              filePath |-> cargoPath,
              projectName |-> IF nameMatch # JsNull THEN nameMatch[1]
                              ELSE basename(rootPath),
              description |-> IF descMatch # JsNull THEN descMatch[1] ELSE <<>>,
              dependencies |-> <<>>] >>
     ELSE <<>>

\* variant in which a package.json that cannot be parsed ends the detection
findDependencyManifests_parseErrorEscapes(f, fl, rootPath) ==
  IF existsSync(f, EntryKind["pkg"].name) /\ fl.pkg.state # "valid" THEN <<>>
  ELSE (IF existsSync(f, EntryKind["pkg"].name) THEN NpmManifest(fl, rootPath) ELSE <<>>)
       \o (IF existsSync(f, EntryKind["req"].name) THEN PipManifest(fl, rootPath) ELSE <<>>)
       \o (IF existsSync(f, EntryKind["cargo"].name) THEN CargoManifest(fl, rootPath) ELSE <<>>)

findDependencyManifests(f, fl, rootPath) ==
  (IF existsSync(f, EntryKind["pkg"].name) THEN NpmManifest(fl, rootPath) ELSE <<>>)
  \o (IF existsSync(f, EntryKind["req"].name) THEN PipManifest(fl, rootPath) ELSE <<>>)
  \o (IF existsSync(f, EntryKind["cargo"].name) THEN CargoManifest(fl, rootPath) ELSE <<>>)

\* the values the fields main and bin of package.json may hold: a string,
\* or an object kept as its sequence of entries
JsString(text) == [kind |-> "string", text |-> text]
JsObject(entries) == [kind |-> "object", entries |-> entries]

\* the truthiness of such a value
TruthyValue(value) == value.kind = "object" \/ Truthy(value.text)

\* the conversion of such a value to a string, as in 'node ' + value
StringOf(value) ==
  IF value.kind = "object" THEN <<"[object", SP, "Object]">> ELSE value.text

\* variant that looks at bin ahead of main
EntryPointOf_binFirst(content) ==
  IF Has(content, "bin") /\ TruthyValue(content["bin"]) THEN Some(content["bin"])
  ELSE IF Has(content, "main") /\ TruthyValue(content["main"]) THEN Some(content["main"])
  ELSE JsNull

\* content.main || content.bin || null
EntryPointOf(content) ==
  IF Has(content, "main") /\ TruthyValue(content["main"]) THEN Some(content["main"])
  ELSE IF Has(content, "bin") /\ TruthyValue(content["bin"]) THEN Some(content["bin"])
  ELSE JsNull

\* variant that takes the manifest found last
PrimaryManifest_last(dependencies) ==
  IF dependencies = <<>> THEN JsNull ELSE Some(Last(dependencies))

\* dependencies[0], undefined being JsNull
PrimaryManifest(dependencies) ==
  IF dependencies = <<>> THEN JsNull ELSE Some(Head(dependencies))

\* primaryManifest?.projectName || path.basename(rootPath)
ProjectName(primaryManifest, rootPath) ==
  IF primaryManifest # JsNull /\ Truthy(primaryManifest[1].projectName)
  THEN primaryManifest[1].projectName ELSE basename(rootPath)

\* variant that goes on to the later manifests for a description
RECURSIVE ProjectDescription_firstDescribed(_, _)
ProjectDescription_firstDescribed(primaryManifest, dependencies) ==
  IF dependencies = <<>> THEN <<>>
  ELSE IF Truthy(Head(dependencies).description) THEN Head(dependencies).description
  ELSE ProjectDescription_firstDescribed(primaryManifest, Tail(dependencies))

\* primaryManifest?.description || ''
ProjectDescription(primaryManifest, dependencies) ==
  IF primaryManifest # JsNull /\ Truthy(primaryManifest[1].description)
  THEN primaryManifest[1].description ELSE <<>>

\* the part of analyzeProject that follows the scan; package.json is read
\* once by findDependencyManifests, again for scripts and again for entryPoint
AnalyzeScanned(f, fl, rootPath, tree) ==
  LET fileList == collectFiles(tree)
      language == detectLanguage(fileList)
      dependencies == findDependencyManifests(f, fl, rootPath)
      primaryManifest == PrimaryManifest(dependencies)
      npm == SelectSeq(dependencies, LAMBDA d : d.type = "npm")
  IN [name |-> ProjectName(primaryManifest, rootPath),
      description |-> ProjectDescription(primaryManifest, dependencies),
      language |-> language,
      entryPoint |-> IF npm # <<>> /\ ~ReadFails(fl.pkg, 3)
                     THEN EntryPointOf(fl.pkg.content) ELSE JsNull,
      scripts |-> IF npm # <<>> /\ ~ReadFails(fl.pkg, 2)
                  THEN ObjectOr(fl.pkg.content, "scripts", <<>>) ELSE <<>>,
      dependencies |-> dependencies,
      structure |-> tree]

----------------------------------------------------------------------------
(* ContentGenerator                                                         *)

generateTitle(md) == <<"#", SP>> \o md.name

generateDescription(md) ==
  IF ~Truthy(md.description) THEN <<>>
  ELSE <<NL>> \o md.description \o <<NL>>

\* the code fence and the code quote of markdown, written without the
\* backquote character
FENCE == "[fence]"
FENCE_BASH == "[fence]bash"
TICK == "[tick]"

BashBlock(command) == <<FENCE_BASH, NL, command, NL, FENCE, NL, NL>>

InstallBlock(manifest) ==
  IF manifest.type = "npm"
    THEN BashBlock("npm install") \o <<"or", NL, NL>> \o BashBlock("yarn install")
  ELSE IF manifest.type = "pip"
    THEN BashBlock("pip install -r requirements.txt")
  ELSE IF manifest.type = "cargo"
    THEN BashBlock("cargo build")
  ELSE <<>>

\* variant of the loop that stops after the first manifest
InstallBlocks_firstOnly(manifests) ==
  IF manifests = <<>> THEN <<>> ELSE InstallBlock(Head(manifests))

RECURSIVE InstallBlocks(_)
InstallBlocks(manifests) ==
  IF manifests = <<>> THEN <<>>
  ELSE InstallBlock(Head(manifests)) \o InstallBlocks(Tail(manifests))

generateInstallation(manifests) ==
  IF Len(manifests) = 0 THEN <<>>
  ELSE <<NL, "## Installation", NL, NL>> \o InstallBlocks(manifests)

RECURSIVE ScriptLines(_)
ScriptLines(scripts) ==
  IF scripts = <<>> THEN <<>>
  ELSE <<"-", SP, TICK, "npm run", SP>> \o Head(scripts)[1] \o <<TICK, ":", SP>>
         \o Head(scripts)[2] \o <<NL>> \o ScriptLines(Tail(scripts))

\* variant that nests the entry point block inside the scripts branch
generateUsage_entryInsideScripts(md) ==
  <<NL, "## Usage", NL, NL>>
  \o (IF Len(md.scripts) > 0
      THEN <<"Available scripts:", NL, NL>> \o ScriptLines(md.scripts) \o <<NL>>
             \o (IF md.entryPoint # JsNull /\ TruthyValue(md.entryPoint[1])
                 THEN <<"Run the application:", NL, NL, FENCE_BASH, NL, "node", SP>>
                        \o StringOf(md.entryPoint[1]) \o <<NL, FENCE, NL, NL>>
                 ELSE <<>>)
      ELSE <<>>)

generateUsage(md) ==
  <<NL, "## Usage", NL, NL>>
  \o (IF Len(md.scripts) > 0
      THEN <<"Available scripts:", NL, NL>> \o ScriptLines(md.scripts) \o <<NL>>
      ELSE <<>>)
  \o (IF md.entryPoint # JsNull /\ TruthyValue(md.entryPoint[1])
      THEN <<"Run the application:", NL, NL, FENCE_BASH, NL, "node", SP>>
             \o StringOf(md.entryPoint[1]) \o <<NL, FENCE, NL, NL>>
      ELSE <<>>)

\* variant with one space per level
RECURSIVE Indent_oneSpace(_)
Indent_oneSpace(depth) == IF depth <= 0 THEN <<>> ELSE <<SP>> \o Indent_oneSpace(depth - 1)

\* two spaces per level
RECURSIVE Indent(_)
Indent(depth) == IF depth <= 0 THEN <<>> ELSE <<SP, SP>> \o Indent(depth - 1)

RECURSIVE formatTree(_, _, _)
RECURSIVE FormatChildren(_, _, _)
FormatChildren(children, depth, maxDepth) ==
  IF children = <<>> THEN <<>>
  ELSE formatTree(Head(children), depth, maxDepth)
         \o FormatChildren(Tail(children), depth, maxDepth)

formatTree(node, depth, maxDepth) ==
  IF depth > maxDepth THEN <<>>
  ELSE (IF depth > 0
        THEN Indent(depth) \o node.name
               \o (IF node.type = "directory" THEN <<"/">> ELSE <<>>) \o <<NL>>
        ELSE <<>>)
       \o (IF node.type = "directory"
           THEN FormatChildren(node.children, depth + 1, maxDepth)
           ELSE <<>>)

generateStructure(tree, maxDepth) ==
  <<NL, "## Project Structure", NL, NL, FENCE, NL>>
  \o formatTree(tree, 0, maxDepth)
  \o <<FENCE, NL, NL>>

----------------------------------------------------------------------------
(* FileSystemAnalyzer.classifyDirectories                                   *)

sourcePatterns == {<<"src">>, <<"lib">>, <<"source">>, <<"app">>}
testPatterns == {<<"test">>, <<"tests">>, <<"__tests__">>, <<"spec">>, <<"specs">>}
configPatterns == {<<"config">>, <<"configuration">>, <<DOT, "config">>}

RECURSIVE classify(_, _)
RECURSIVE ClassifyChildren(_, _)
RECURSIVE classify_caseSensitive(_, _)

\* variant that compares the name as it is written
classify_caseSensitive(n, result) ==
  IF n.type = "directory"
    THEN LET placed ==
               IF n.name \in sourcePatterns
                 THEN [result EXCEPT !.source = Append(@, n.path)]
               ELSE IF n.name \in testPatterns
                 THEN [result EXCEPT !.test = Append(@, n.path)]
               ELSE IF n.name \in configPatterns
                 THEN [result EXCEPT !.config = Append(@, n.path)]
               ELSE result
         IN ClassifyChildren(n.children, placed)
  ELSE result

ClassifyChildren(children, result) ==
  IF children = <<>> THEN result
  ELSE ClassifyChildren(Tail(children), classify(Head(children), result))

classify(n, result) ==
  IF n.type = "directory"
    THEN LET lowerName == toLowerCase(n.name)
             placed ==
               IF lowerName \in sourcePatterns
                 THEN [result EXCEPT !.source = Append(@, n.path)]
               ELSE IF lowerName \in testPatterns
                 THEN [result EXCEPT !.test = Append(@, n.path)]
               ELSE IF lowerName \in configPatterns
                 THEN [result EXCEPT !.config = Append(@, n.path)]
               ELSE result
         IN ClassifyChildren(n.children, placed)
  ELSE result

classifyDirectories(node) ==
  classify(node, [source |-> <<>>, test |-> <<>>, config |-> <<>>])

----------------------------------------------------------------------------
(* ConfigurationLoader.loadConfig, mergeWithDefaults                        *)

\* obj.field ?? fallback, for a field that holds null or one number or
\* boolean: only a missing field and null give the fallback
NullishOr(obj, field, fallback) ==
  IF Has(obj, field) /\ obj[field] # JsNull THEN obj[field][1] ELSE fallback

\* variant that returns the object of the file as it is
mergeWithDefaults_fileOnly(userConfig) ==
  [field \in DOMAIN userConfig |->
     IF field \in {"maxDepth", "includeHiddenFiles"} /\ userConfig[field] # JsNull
       THEN userConfig[field][1]
     ELSE userConfig[field]]

\* an array and an object are truthy even when empty, so || keeps them; null
\* and a missing field give the same empty default
mergeWithDefaults(userConfig) ==
  [excludeSections |-> ObjectOr(userConfig, "excludeSections", <<>>),
   customContent |-> ObjectOr(userConfig, "customContent", EmptyMap),
   maxDepth |-> NullishOr(userConfig, "maxDepth", 3),
   includeHiddenFiles |-> NullishOr(userConfig, "includeHiddenFiles", FALSE)]

\* rc is the state of .readmerc.json: absent, malformed, or a parsed object
loadConfig(rc) ==
  IF rc.state = "valid" THEN mergeWithDefaults(rc.content)
  ELSE mergeWithDefaults(EmptyMap)

----------------------------------------------------------------------------
(* main                                                                     *)

\* variant of the two merger calls with the override ahead of the exclusion
MergeSections_overrideFirst(secs, cfg) ==
  applySectionExclusion(applyCustomContent(secs, cfg.customContent),
                        cfg.excludeSections)

\* the two merger calls of main
MergeSections(secs, cfg) ==
  applyCustomContent(applySectionExclusion(secs, cfg.excludeSections),
                     cfg.customContent)

\* the default of the maxDepth parameter, which analyzeProject relies on
DefaultScanDepth == 3

RunRootKinds == {"proj", "ats", "gone"}
RunChildKinds == {"src", "ats", "git", "pkg", "req", "cargo"}

PkgContents ==
  { EmptyMap,
    [name |-> <<"demo">>, description |-> <<"A", SP, "test">>],
    [name |-> <<"demo">>,
     main |-> JsString(<<"index", DOT, "js">>),
     scripts |-> << <<<<"build">>, <<"tsc">>>> >>,
     dependencies |-> << <<<<"left-pad">>, <<"1">>>> >>] }

ReqContents ==
  { <<>>,
    <<"flask", NL, "#", SP, "dev", NL, SP, "pytest", NL>> }

CargoContents ==
  { <<>>,
    << [key |-> "name", value |-> <<"crate">>],
       [key |-> "description", value |-> <<"A", SP, "crate">>] >> }

\* the keys .readmerc.json of a full run names: two sections main generates
\* and a key main does not know
RunKeys == {"title", "description", "extra"}

RcContents ==
  {EmptyMap, [maxDepth |-> Some(1)]} \cup
  { [excludeSections |-> ex, customContent |-> cc] :
      ex \in SeqsUpTo(RunKeys, MaxRunExclude),
      cc \in MappingsOver(RunKeys, MaxRunCustom, [k \in RunKeys |-> CustomTexts(k)]) }

\* the states a file may be in, given that the directory does or does not list it
FileStates(listed, contents, canBeMalformed) ==
  IF ~listed THEN {AbsentFile}
  ELSE {ValidFile(c) : c \in contents} \cup
       (IF canBeMalformed THEN {MalformedFile} ELSE {})

\* the states of a manifest the root directory does or does not list
ManifestStates(listed, contents, canBeMalformed) ==
  FileStates(listed, contents, canBeMalformed) \cup
  (IF listed THEN {UnreadableFile} ELSE {})

HasRootEntry(f, kind) == \E c \in ChildInodes(f, RootInode) : f[c].kind = kind

Init ==
  /\ pc = "main"
  /\ fs \in FsFamily(MaxRunInodes, RunRootKinds, RunChildKinds)
  /\ files \in [rc : FileStates(StatOf(fs, RootInode) = "dir", RcContents, TRUE)
                       \cup {AbsentFile},
                pkg : FileStates(HasRootEntry(fs, "pkg"), PkgContents, TRUE),
                req : FileStates(HasRootEntry(fs, "req"), ReqContents, FALSE),
                cargo : FileStates(HasRootEntry(fs, "cargo"), CargoContents, FALSE)]
  /\ scanMaxDepth = DefaultScanDepth
  /\ stack = <<>>
  /\ structure = NoNode
  /\ calls = 0
  /\ deepest = 0
  /\ MergeIdle
  /\ CallIdle
  /\ IoIdle

RootPath == join(RootParent, NameOf(fs, RootInode))

ReadmeName == <<"README", DOT, "md">>

\* the lines main prints
NotFoundMessage == <<"Error: Directory not found:">>
OverwritePrompt == <<"README.md already exists. Overwrite? (y/n)">>
AnalyzingMessage == <<"Analyzing project...">>
SuccessMessage == <<"README.md generated successfully">>
ErrorMessage == <<"Error generating README:">>

\* the existence test of the target directory, then that of README.md: the
\* question is printed and main goes on without reading an answer
MainStart ==
  /\ pc = "main"
  /\ IF Accessible(fs, RootInode)
       THEN /\ console' = console
                         \o (IF existsSync(fs, ReadmeName) THEN <<OverwritePrompt>> ELSE <<>>)
                         \o <<AnalyzingMessage>>
            /\ pc' = "loadConfig"
     ELSE /\ console' = Append(console, NotFoundMessage)
          /\ pc' = "exit1"
  /\ UNCHANGED <<readmeFile, stdin>>
  /\ UNCHANGED <<scanVars, diskVars, mergeVars, callVars>>

\* variant that hands the configured depth to the scan of analyzeProject
MainLoadConfig_passesDepth ==
  /\ pc = "loadConfig"
  /\ config' = loadConfig(files.rc)
  /\ scanMaxDepth' = config'.maxDepth
  /\ pc' = "scan"
  /\ UNCHANGED <<metadata, generated, sections, readme>>
  /\ UNCHANGED <<stack, structure, calls, deepest, diskVars, callVars, ioVars>>

MainLoadConfig ==
  /\ pc = "loadConfig"
  /\ config' = loadConfig(files.rc)
  /\ pc' = "scan"
  /\ UNCHANGED <<metadata, generated, sections, readme>>
  /\ UNCHANGED <<scanVars, diskVars, callVars, ioVars>>

\* analyzeProject after its scan has returned
MainAnalyze ==
  /\ pc = "scanned"
  /\ metadata' = AnalyzeScanned(fs, files, RootPath, structure)
  /\ console' = console \o << <<"Project:", SP>> \o metadata'.name,
                              <<"Language:", SP>> \o metadata'.language >>
  /\ pc' = "generate"
  /\ UNCHANGED <<generated, config, sections, readme>>
  /\ UNCHANGED <<scanVars, diskVars, callVars, readmeFile, stdin>>

\* the sections main builds from the metadata
GeneratedSections(md, cfg) ==
  [title |-> generateTitle(md),
   description |-> generateDescription(md),
   installation |-> generateInstallation(md.dependencies),
   usage |-> generateUsage(md),
   structure |-> generateStructure(md.structure, cfg.maxDepth),
   license |-> <<>>]

MainGenerate ==
  /\ pc = "generate"
  /\ generated' = GeneratedSections(metadata, config)
  /\ pc' = "merge"
  /\ UNCHANGED <<metadata, config, sections, readme>>
  /\ UNCHANGED <<scanVars, diskVars, callVars, ioVars>>

MainMerge ==
  /\ pc = "merge"
  /\ sections' = MergeSections(generated, config)
  /\ pc' = "assemble"
  /\ UNCHANGED <<metadata, generated, config, readme>>
  /\ UNCHANGED <<scanVars, diskVars, callVars, ioVars>>

MainAssemble ==
  /\ pc = "assemble"
  /\ readme' = assembleSections(sections)
  /\ pc' = "write"
  /\ UNCHANGED <<metadata, generated, config, sections>>
  /\ UNCHANGED <<scanVars, diskVars, callVars, ioVars>>

\* fs.writeFileSync(readmePath, readme): fails when rootPath is no directory
MainWrite ==
  /\ pc = "write"
  /\ IF StatOf(fs, RootInode) = "dir"
       THEN /\ readmeFile' = ValidFile(readme)
            /\ console' = Append(console, SuccessMessage)
            /\ pc' = "done"
     ELSE /\ console' = Append(console, ErrorMessage)
          /\ pc' = "exit1"
          /\ UNCHANGED readmeFile
  /\ UNCHANGED stdin
  /\ UNCHANGED <<scanVars, diskVars, mergeVars, callVars>>

Next ==
  \/ MainStart
  \/ MainLoadConfig
  \/ ScanEnter
  \/ ScanSkipEntry
  \/ ScanCallEntry
  \/ ScanReturn
  \/ MainAnalyze
  \/ MainGenerate
  \/ MainMerge
  \/ MainAssemble
  \/ MainWrite

Spec == Init /\ [][Next]_vars

----------------------------------------------------------------------------
(* main with a README.md in place, a user at the terminal and the options   *)
(* maxDepth and includeHiddenFiles                                          *)

\* what the user types when asked: nothing, yes or no
Answers == { [typed |-> t, read |-> 0] : t \in {<<>>, <<"y">>, <<"n">>} }

OldReadme == <<"#", SP, "old">>

CliKinds == {"src", "ats", "git", "readme"}

\* trees of one directory nested in another down to depth MaxDeepInodes - 1
DeepKinds == {"src", "ats"}

FlagConfigs ==
  {EmptyMap, [maxDepth |-> Some(1), includeHiddenFiles |-> Some(TRUE)]} \cup
  { [includeHiddenFiles |-> Some(b)] : b \in BOOLEAN }

DepthConfigs == { [maxDepth |-> Some(n)] : n \in 0..MaxConfigDepth }

CliInit ==
  /\ pc = "main"
  /\ \/ /\ fs \in FsFamily(MaxCliInodes, {"proj"}, CliKinds)
        /\ files \in [rc : {AbsentFile} \cup {ValidFile(c) : c \in FlagConfigs},
                      pkg : {AbsentFile}, req : {AbsentFile}, cargo : {AbsentFile}]
        /\ stdin \in Answers
     \/ /\ fs \in FsFamily(MaxDeepInodes, {"proj"}, DeepKinds)
        /\ files \in [rc : {AbsentFile} \cup {ValidFile(c) : c \in DepthConfigs},
                      pkg : {AbsentFile}, req : {AbsentFile}, cargo : {AbsentFile}]
        /\ stdin = NoInput
  /\ readmeFile = IF existsSync(fs, ReadmeName) THEN ValidFile(OldReadme) ELSE AbsentFile
  /\ console = <<>>
  /\ scanMaxDepth = DefaultScanDepth
  /\ stack = <<>>
  /\ structure = NoNode
  /\ calls = 0
  /\ deepest = 0
  /\ MergeIdle
  /\ CallIdle

CliSpec == CliInit /\ [][Next]_vars

----------------------------------------------------------------------------
(* analyzeProject called on its own                                         *)

AnalyzeRootKinds == {"proj", "gone"}
AnalyzeChildKinds == {"src", "ats", "node_modules", "pkg", "req", "cargo"}

CliPath == <<"cli", DOT, "js">>
IndexPath == <<"index", DOT, "js">>

\* package.json contents that are read once
PkgAnalyzed ==
  { EmptyMap,
    [name |-> <<"demo">>, description |-> <<"desc">>],
    [name |-> <<"demo">>],
    [name |-> <<"demo">>, main |-> JsString(<<>>), bin |-> JsString(CliPath)],
    [name |-> <<"demo">>, bin |-> JsString(CliPath)],
    [name |-> <<"demo">>, bin |-> JsObject(<< <<<<"demo">>, CliPath>> >>)],
    [name |-> <<"demo">>, main |-> JsString(IndexPath),
     bin |-> JsObject(<< <<<<"demo">>, CliPath>> >>)] }

\* a package.json content whose later reads may fail
PkgReread ==
  [name |-> <<"demo">>, description |-> <<"desc">>, main |-> JsString(IndexPath),
   scripts |-> << <<<<"build">>, <<"tsc">>>> >>]

PkgAnalyzedStates(listed) ==
  ManifestStates(listed, PkgAnalyzed, TRUE) \cup
  (IF listed THEN {FlakyFile(PkgReread, failing) : failing \in SUBSET {2, 3}} ELSE {})

ReqAnalyzed == { <<"flask", NL>> }

AnalyzeInit ==
  /\ pc = "scan"
  /\ fs \in FsFamily(MaxAnalyzeInodes, AnalyzeRootKinds, AnalyzeChildKinds)
  /\ files \in [rc : {AbsentFile},
                pkg : PkgAnalyzedStates(HasRootEntry(fs, "pkg")),
                req : ManifestStates(HasRootEntry(fs, "req"), ReqAnalyzed, FALSE),
                cargo : ManifestStates(HasRootEntry(fs, "cargo"), CargoContents, FALSE)]
  /\ scanMaxDepth = DefaultScanDepth
  /\ stack = <<>>
  /\ structure = NoNode
  /\ calls = 0
  /\ deepest = 0
  /\ MergeIdle
  /\ CallIdle
  /\ IoIdle

\* analyzeProject returns, its scan having returned
AnalyzeReturn ==
  /\ pc = "scanned"
  /\ metadata' = AnalyzeScanned(fs, files, RootPath, structure)
  /\ pc' = "analyzed"
  /\ UNCHANGED <<generated, config, sections, readme>>
  /\ UNCHANGED <<scanVars, diskVars, callVars, ioVars>>

AnalyzeNext ==
  \/ ScanEnter
  \/ ScanSkipEntry
  \/ ScanCallEntry
  \/ ScanReturn
  \/ AnalyzeReturn

AnalyzeSpec == AnalyzeInit /\ [][AnalyzeNext]_vars

----------------------------------------------------------------------------
(* The analyzer's and the generator's functions called on their own         *)

\* the file paths detectLanguage is called with
FilePaths ==
  { << <<"a", DOT, "ts">> >>,
    << <<"b", DOT, "TS">> >>,
    << <<"src">>, <<"c", DOT, "js">> >>,
    << <<"README", DOT, "md">> >>,
    << <<DOT, "gitignore">> >>,
    << <<"v1", DOT, "py">>, <<"Makefile">> >> }

DetectInputs ==
  { [op |-> "detectLanguage", files |-> fl] : fl \in SeqsUpTo(FilePaths, MaxFiles) }

\* the contents of the manifests findDependencyManifests is called on
PkgManifests ==
  { EmptyMap,
    [name |-> <<>>, description |-> <<>>],
    [name |-> <<"foo-bar">>, description |-> <<"A", SP, "test">>,
     dependencies |-> << <<<<"test-dep">>, <<"1">>>>, <<<<"left-pad">>, <<"2">>>> >>],
    [name |-> <<"foo-bar">>, dependencies |-> <<>>],
    [description |-> <<"A", SP, "test">>] }

ReqManifests ==
  { <<>>,
    <<"flask">>,
    <<"flask", NL, "#", SP, "dev", NL, SP, "pytest", SP, NL, SP, TAB, NL, "six">>,
    <<"flask", NL, SP, "#", SP, "dev", NL>> }

CargoManifests == CargoContents

ManifestKinds == {"pkg", "req", "cargo"}

\* the manifests generateInstallation is called with, of every declared type
ManifestOfType(type) ==
  [type |-> type, filePath |-> <<<<"test">>, <<"manifest">>>>,
   projectName |-> <<"test-project">>, description |-> <<"Test">>,
   dependencies |-> <<>>]

ManifestTypes == {"npm", "pip", "cargo", "other"}

InstallInputs ==
  { [op |-> "generateInstallation",
     manifests |-> [i \in 1..Len(types) |-> ManifestOfType(types[i])]] :
    types \in SeqsUpTo(ManifestTypes, MaxManifests) }

\* the DirectoryNode of an entry and of everything below it, in the order of
\* the listing
RECURSIVE TreeOf(_, _, _)
TreeOf(f, i, path) ==
  IF StatOf(f, i) = "file" THEN FileNode(NameOf(f, i), path)
  ELSE LET cs == SortedSeq(ChildInodes(f, i))
       IN [DirNode(NameOf(f, i), path) EXCEPT
             !.children = [k \in 1..Len(cs) |->
                             TreeOf(f, cs[k], join(path, NameOf(f, cs[k])))]]

\* the trees and the depths generateStructure is called with
StructureTrees(maxInodes) ==
  { TreeOf(f, RootInode, join(RootParent, NameOf(f, RootInode))) :
      f \in FsFamily(maxInodes, {"proj"}, {"src", "dist", "ats"}) }

RenderDepths == (0 - 1)..MaxRenderDepth

StructureInputs(maxInodes) ==
  { [op |-> "generateStructure", tree |-> t, maxDepth |-> d] :
      t \in StructureTrees(maxInodes), d \in RenderDepths }

\* the trees classifyDirectories is called with: the root a plain, a source
\* or a test directory or a file; below it directories of every bucket, one
\* of no bucket, and a file with the name of a test directory
ClassifyTrees(maxInodes) ==
  { TreeOf(f, RootInode, join(RootParent, NameOf(f, RootInode))) :
      f \in FsFamily(maxInodes, {"proj", "src", "testfile"},
                     {"src", "tests", "dotconfig", "dist", "testfile"}) }

ClassifyInputs(maxInodes) ==
  { [op |-> "classifyDirectories", node |-> t] : t \in ClassifyTrees(maxInodes) }

\* the contents of .readmerc.json loadConfig is called on: every option
\* omitted, null or given, the depth also zero and negative
ConfigFields == {"excludeSections", "customContent", "maxDepth", "includeHiddenFiles"}

ConfigDepths == {JsNull} \cup {Some(n) : n \in (0 - 1)..MaxConfigDepth}

ConfigFlags == {JsNull, Some(TRUE), Some(FALSE)}

ConfigFiles ==
  { [field \in given |->
       CASE field = "excludeSections" -> ex
         [] field = "customContent" -> cc
         [] field = "maxDepth" -> md
         [] field = "includeHiddenFiles" -> ih] :
      given \in SUBSET ConfigFields,
      ex \in {<<>>, <<"usage">>},
      cc \in {EmptyMap, [title |-> CustomTexts("title")]},
      md \in ConfigDepths,
      ih \in ConfigFlags }

ConfigInputs == { [op |-> "loadConfig", rootPath |-> RootParent \o <<<<"proj">>>>] }

\* the metadata generateUsage is called with: the scripts in the order of
\* the object's keys, the entry point null, empty or a path
ScriptEntries ==
  { <<<<"build">>, <<"tsc">>>>,
    <<<<"test">>, <<"vitest", SP, "--run">>>>,
    <<<<"start">>, <<"ts-node", SP, "src/cli", DOT, "ts">>>> }

ScriptMaps ==
  { sc \in SeqsUpTo(ScriptEntries, MaxScripts) :
      \A i, j \in 1..Len(sc) : sc[i][1] = sc[j][1] => i = j }

EntryPoints == {JsNull, Some(JsString(<<>>)), Some(JsString(IndexPath))}

UsageInputs ==
  { [op |-> "generateUsage",
     metadata |-> [name |-> <<"test-project">>, description |-> <<"Test">>,
                   language |-> <<"TypeScript">>, dependencies |-> <<>>,
                   scripts |-> sc, entryPoint |-> ep, structure |-> NoNode]] :
    sc \in ScriptMaps, ep \in EntryPoints }

CallInit ==
  /\ pc = "call"
  /\ output = <<>>
  /\ \/ /\ input \in DetectInputs
        /\ fs = NoFs
        /\ files = NoFiles
     \/ /\ input \in InstallInputs
        /\ fs = NoFs
        /\ files = NoFiles
     \/ /\ input \in UsageInputs
        /\ fs = NoFs
        /\ files = NoFiles
     \/ /\ input \in StructureInputs(MaxTreeInodes)
        /\ fs = NoFs
        /\ files = NoFiles
     \/ /\ input \in ClassifyInputs(MaxClassifyInodes)
        /\ fs = NoFs
        /\ files = NoFiles
     \/ /\ input \in ConfigInputs
        /\ fs = NoFs
        /\ files \in [rc : FileStates(TRUE, ConfigFiles, TRUE) \cup {AbsentFile, UnreadableFile},
                      pkg : {AbsentFile}, req : {AbsentFile}, cargo : {AbsentFile}]
     \/ /\ fs \in FsFamily(MaxManifestInodes, {"proj"}, ManifestKinds)
        /\ files \in [rc : {AbsentFile},
                      pkg : ManifestStates(HasRootEntry(fs, "pkg"), PkgManifests, TRUE),
                      req : ManifestStates(HasRootEntry(fs, "req"), ReqManifests, FALSE),
                      cargo : ManifestStates(HasRootEntry(fs, "cargo"), CargoManifests, FALSE)]
        /\ input = [op |-> "findDependencyManifests",
                    rootPath |-> join(RootParent, NameOf(fs, RootInode))]
  /\ stack = <<>>
  /\ scanMaxDepth = 0
  /\ structure = NoNode
  /\ calls = 0
  /\ deepest = 0
  /\ MergeIdle
  /\ IoIdle

\* one more call with the same argument
Returns(value) ==
  /\ pc = "call"
  /\ Len(output) < MaxCalls
  /\ output' = Append(output, value)
  /\ UNCHANGED <<pc, input, scanVars, diskVars, mergeVars, ioVars>>

CallDetectLanguage ==
  /\ input.op = "detectLanguage"
  /\ Returns(detectLanguage(input.files))

CallFindDependencyManifests ==
  /\ input.op = "findDependencyManifests"
  /\ Returns(findDependencyManifests(fs, files, input.rootPath))

CallGenerateInstallation ==
  /\ input.op = "generateInstallation"
  /\ Returns(generateInstallation(input.manifests))

CallGenerateUsage ==
  /\ input.op = "generateUsage"
  /\ Returns(generateUsage(input.metadata))

CallLoadConfig ==
  /\ input.op = "loadConfig"
  /\ Returns(loadConfig(files.rc))

CallGenerateStructure ==
  /\ input.op = "generateStructure"
  /\ Returns(generateStructure(input.tree, input.maxDepth))

CallClassifyDirectories ==
  /\ input.op = "classifyDirectories"
  /\ Returns(classifyDirectories(input.node))

CallNext ==
  \/ CallDetectLanguage
  \/ CallFindDependencyManifests
  \/ CallGenerateInstallation
  \/ CallGenerateUsage
  \/ CallLoadConfig
  \/ CallGenerateStructure
  \/ CallClassifyDirectories

CallSpec == CallInit /\ [][CallNext]_vars

----------------------------------------------------------------------------
(* Properties of scanDirectoryStructure                                     *)

\* every node of a tree, with its depth below the root
RECURSIVE TreeNodes(_, _)
TreeNodes(n, d) ==
  {[node |-> n, depth |-> d]} \cup
  UNION { TreeNodes(n.children[k], d + 1) : k \in 1..Len(n.children) }

ChildNames(n) == {n.children[k].name : k \in 1..Len(n.children)}

\* the path and the depth of an inode, read off the directory tree on disk
RECURSIVE PathOf(_, _)
PathOf(f, i) ==
  IF i = RootInode THEN RootParent \o <<NameOf(f, i)>>
  ELSE PathOf(f, f[i].parent) \o <<NameOf(f, i)>>

RECURSIVE FsDepth(_, _)
FsDepth(f, i) == IF i = RootInode THEN 0 ELSE 1 + FsDepth(f, f[i].parent)

InodeAt(f, path) == CHOOSE i \in Inodes(f) : PathOf(f, i) = path

\* entries the scanner leaves out by name
ExcludedKinds == {"git", "node_modules", "dist"}

\* a directory node whose listing was read
Expanded(x) ==
  /\ x.node.type = "directory"
  /\ x.depth < scanMaxDepth
  /\ Listable(fs, InodeAt(fs, x.node.path))

ScannedNodes == TreeNodes(structure, 0)

\* C6: below the root no node has a dot-prefixed name other than .gitignore,
\* none is named node_modules or dist, and an accessible .gitignore of an
\* expanded directory is one of its children.
C6_HiddenAndBuildEntriesExcluded ==
  pc = "scanned" =>
    \A x \in ScannedNodes :
      /\ x.depth > 0 =>
           /\ x.node.name[1] = DOT => x.node.name = <<DOT, "gitignore">>
           /\ x.node.name # <<"node_modules">>
           /\ x.node.name # <<"dist">>
      /\ Expanded(x) =>
           \A c \in ChildInodes(fs, InodeAt(fs, x.node.path)) :
             (fs[c].kind = "gitignore" /\ Accessible(fs, c))
               => <<DOT, "gitignore">> \in ChildNames(x.node)

\* a scan that met .gitignore next to a hidden and a build directory
C6_Witness ==
  /\ pc = "scanned"
  /\ <<DOT, "gitignore">> \in ChildNames(structure)
  /\ \E c, d \in ChildInodes(fs, RootInode) :
       /\ fs[c].kind = "dist"
       /\ fs[d].kind \in {"git", "node_modules"}

\* the entries of an expanded directory that are not excluded by name
ScannableEntries(x) ==
  {c \in ChildInodes(fs, InodeAt(fs, x.node.path)) : fs[c].kind \notin ExcludedKinds}

\* the child of node n that stands for inode c, if any
ChildrenFor(n, c) ==
  {k \in 1..Len(n.children) : n.children[k].path = PathOf(fs, c)}

C8_DepthBounded ==
  pc = "scanned" =>
    \A x \in ScannedNodes :
      /\ x.depth <= scanMaxDepth
      /\ (x.node.type = "directory" /\ x.depth = scanMaxDepth) =>
           x.node.children = <<>>
      /\ Expanded(x) =>
           LET want == {c \in ScannableEntries(x) : Accessible(fs, c)}
           IN /\ Len(x.node.children) = Cardinality(want)
              /\ \A c \in want : ChildrenFor(x.node, c) # {}
              /\ \A k, m \in 1..Len(x.node.children) :
                   k < m => InodeAt(fs, x.node.children[k].path)
                              < InodeAt(fs, x.node.children[m].path)

\* a non-empty directory cut off at the depth limit, below an expanded one
C8_Witness ==
  /\ pc = "scanned"
  /\ scanMaxDepth >= 1
  /\ \E x \in ScannedNodes :
       /\ x.node.type = "directory"
       /\ x.depth = scanMaxDepth
       /\ x.node.children = <<>>
       /\ ChildInodes(fs, InodeAt(fs, x.node.path)) # {}
  /\ Len(structure.children) >= 2

\* C9: the root node carries the scanned path; it is a directory for a
\* directory and a childless file for a file, whatever maxDepth is; every
\* file node of the tree is a leaf.
C9_RootIdentityAndLeaves ==
  pc = "scanned" =>
    /\ structure.path = PathOf(fs, RootInode)
    /\ StatOf(fs, RootInode) = "dir" => structure.type = "directory"
    /\ StatOf(fs, RootInode) = "file" =>
         structure.type = "file" /\ structure.children = <<>>
    /\ \A x \in ScannedNodes :
         /\ x.node.type \in {"file", "directory"}
         /\ x.node.type = "file" => x.node.children = <<>>
         /\ x.node.type = "file" <=> StatOf(fs, InodeAt(fs, x.node.path)) = "file"

\* a file given as the root of a scan with a positive depth limit
C9_Witness ==
  /\ pc = "scanned"
  /\ StatOf(fs, RootInode) = "file"
  /\ scanMaxDepth > 0
  /\ structure.type = "file"

\* the inodes a depth-bounded walk can reach
WithinDepth == {i \in Inodes(fs) : FsDepth(fs, i) <= scanMaxDepth}

\* C10: the scan ends; no call is made with currentDepth > maxDepth, and the
\* number of calls never exceeds the number of entries within the depth limit.
C10_ScanTerminates ==
  /\ <>(pc \in {"scanned", "threw"})
  /\ [](/\ deepest <= scanMaxDepth
        /\ \A k \in 1..Len(stack) : stack[k].depth < scanMaxDepth
        /\ Len(stack) <= scanMaxDepth
        /\ calls <= Cardinality(WithinDepth))

\* a finished scan of a tree that is deeper than the depth limit
C10_Witness ==
  /\ pc = "scanned"
  /\ calls >= 2
  /\ \E i \in Inodes(fs) : FsDepth(fs, i) > scanMaxDepth

----------------------------------------------------------------------------
(* Properties of the assembler and of the merger                            *)

\* the value a key contributes to the document
Contribution(map, key) == IF key \in DOMAIN map THEN map[key] ELSE <<>>

\* the contributions side by side in the documented order
InOrder(map) ==
  Contribution(map, "title") \o Contribution(map, "description") \o
  Contribution(map, "installation") \o Contribution(map, "usage") \o
  Contribution(map, "structure") \o Contribution(map, "license")

\* body is str without a leading and a trailing run of whitespace, and
\* neither begins nor ends with whitespace
IsTrimOf(body, str) ==
  /\ body # <<>> => (body[1] \notin Whitespace /\ Last(body) \notin Whitespace)
  /\ \E i \in 0..Len(str) :
       /\ i + Len(body) <= Len(str)
       /\ \A m \in 1..i : str[m] \in Whitespace
       /\ \A m \in 1..Len(body) : str[i + m] = body[m]
       /\ \A m \in (i + Len(body) + 1)..Len(str) : str[m] \in Whitespace

\* C1: the document is the trimmed concatenation of the non-empty values of
\* title, description, installation, usage, structure, license in that order,
\* followed by exactly one newline.
C1_AssembledInOrder ==
  pc = "assembled" =>
    /\ Len(readme) >= 1
    /\ Last(readme) = NL
    /\ IsTrimOf(SubSeq(readme, 1, Len(readme) - 1), InOrder(generated))

\* two padded sections around an empty one, with a key that names no section
C1_Witness ==
  /\ pc = "assembled"
  /\ DOMAIN generated = {"installation", "usage", "extra"}
  /\ generated["installation"] = <<NL, "installation", SP, "installation", NL>>
  /\ generated["usage"] = <<NL, "usage", SP, "usage", NL>>
  /\ generated["extra"] = <<"extra">>
  /\ readme = <<"installation", SP, "installation", NL,
                NL, "usage", SP, "usage", NL>>

\* C2: the result keeps exactly the keys that are not excluded, each with its
\* value; an excluded key that is no key of the mapping changes nothing.
C2_ExclusionRemovesListedKeys ==
  pc = "excluded" =>
    /\ DOMAIN sections = DOMAIN generated \ Range(config.excludeSections)
    /\ \A k \in DOMAIN sections : sections[k] = generated[k]

\* two keys excluded, the second a key of the mapping, the first not
C2_Witness ==
  /\ pc = "excluded"
  /\ Len(config.excludeSections) = 2
  /\ config.excludeSections[1] \notin DOMAIN generated
  /\ config.excludeSections[2] \in DOMAIN generated
  /\ DOMAIN sections # {}
  /\ DOMAIN sections # DOMAIN generated

\* C3: a key with a non-empty custom value maps to that value; every other
\* key of the mapping, one with an empty custom value included, keeps its
\* value; no other key appears.
C3_CustomContentOverrides ==
  pc = "customized" =>
    LET cc == config.customContent
        taken == {k \in DOMAIN cc : cc[k] # <<>>}
    IN /\ DOMAIN sections = DOMAIN generated \cup taken
       /\ \A k \in taken : sections[k] = cc[k]
       /\ \A k \in DOMAIN generated \ taken : sections[k] = generated[k]

\* one custom value replaces a section, an empty one leaves another alone
C3_Witness ==
  /\ pc = "customized"
  /\ \E j, k \in DOMAIN config.customContent \cap DOMAIN generated :
       /\ config.customContent[j] # <<>>
       /\ config.customContent[k] = <<>>
       /\ generated[k] # <<>>
       /\ sections[j] = config.customContent[j]
       /\ sections[k] = generated[k]

----------------------------------------------------------------------------
(* Properties of a full run of main                                         *)

\* text stands somewhere in doc
Occurs(text, doc) ==
  \E i \in 0..(Len(doc) - Len(text)) :
    \A m \in 1..Len(text) : doc[i + m] = text[m]

ExcludedKeys == Range(config.excludeSections)

\* the keys whose custom content is not empty
CustomKeys == {k \in DOMAIN config.customContent : config.customContent[k] # <<>>}

C5_ExcludedSectionsAbsent ==
  pc = "done" =>
    \A k \in ExcludedKeys \cap SectionKeys :
      /\ trim(generated[k]) # <<>> => ~Occurs(trim(generated[k]), readme)
      /\ k \in DOMAIN config.customContent =>
           (trim(config.customContent[k]) # <<>>
              => ~Occurs(trim(config.customContent[k]), readme))

----------------------------------------------------------------------------
(* Properties of detectLanguage                                             *)

ExtensionAt(fileList, i) == toLowerCase(extname(fileList[i]))

\* the files that have an extension
WithExtension(fileList) ==
  {i \in 1..Len(fileList) : ExtensionAt(fileList, i) # <<>>}

Occurrences(fileList, ext) ==
  Cardinality({i \in 1..Len(fileList) : ExtensionAt(fileList, i) = ext})

FirstIndex(fileList, ext) ==
  CHOOSE i \in 1..Len(fileList) :
    /\ ExtensionAt(fileList, i) = ext
    /\ \A j \in 1..(i - 1) : ExtensionAt(fileList, j) # ext

\* the extension of file i is counted more often than that of file j, or as
\* often and met no later
Wins(fileList, i, j) ==
  LET ei == ExtensionAt(fileList, i)
      ej == ExtensionAt(fileList, j)
  IN \/ Occurrences(fileList, ei) > Occurrences(fileList, ej)
     \/ /\ Occurrences(fileList, ei) = Occurrences(fileList, ej)
        /\ FirstIndex(fileList, ei) <= FirstIndex(fileList, ej)

Unknown == <<"Unknown">>

Labels == {languageMap[k] : k \in DOMAIN languageMap}

ExpectedLanguage(fileList) ==
  IF WithExtension(fileList) = {} THEN Unknown
  ELSE LET w == CHOOSE i \in WithExtension(fileList) :
                  \A j \in WithExtension(fileList) : Wins(fileList, i, j)
           label == LanguageOf(ExtensionAt(fileList, w))
       IN IF label = JsNull THEN Unknown ELSE label[1]

DetectCalled == pc = "call" /\ input.op = "detectLanguage"

\* C11: every call of detectLanguage returns the label of the lower-cased
\* extension counted most often, the extension met first winning a tie for
\* the greatest count, and 'Unknown' when that extension has no label or no
\* file has an extension; the result is a non-empty string among the ten
\* labels and 'Unknown', and repeated calls on one sequence return the same.
C11_DetectLanguage ==
  DetectCalled =>
    \A k \in 1..Len(output) :
      /\ output[k] = ExpectedLanguage(input.files)
      /\ output[k] \in Labels \cup {Unknown}
      /\ output[k] # <<>>
      /\ output[k] = output[1]

\* a second call has returned for a sequence in which two extensions that
\* have a label are tied for the greatest count
C11_Witness ==
  /\ DetectCalled
  /\ Len(output) >= 2
  /\ \E i, j \in WithExtension(input.files) :
       /\ i < j
       /\ ExtensionAt(input.files, i) # ExtensionAt(input.files, j)
       /\ LanguageOf(ExtensionAt(input.files, i)) # JsNull
       /\ LanguageOf(ExtensionAt(input.files, j)) # JsNull
       /\ Wins(input.files, i, j) /\ Wins(input.files, j, j)
       /\ Occurrences(input.files, ExtensionAt(input.files, i))
            = Occurrences(input.files, ExtensionAt(input.files, j))
       /\ \A k \in WithExtension(input.files) : Wins(input.files, i, k)
       /\ output[1] = LanguageOf(ExtensionAt(input.files, i))[1]

----------------------------------------------------------------------------
(* Properties of findDependencyManifests                                    *)

ManifestsCalled == pc = "call" /\ input.op = "findDependencyManifests"

\* the file each manifest type is read from, and the place of the type in
\* the probe order
ManifestFile == [npm |-> "pkg", pip |-> "req", cargo |-> "cargo"]
ProbeRank == [npm |-> 1, pip |-> 2, cargo |-> 3]

\* the file is at the root, can be read and can be parsed
PresentAndParseable(key) == HasRootEntry(fs, key) /\ files[key].state = "valid"

RecordsOfType(result, type) == {i \in 1..Len(result) : result[i].type = type}

\* C12: findDependencyManifests returns one record for each of package.json,
\* requirements.txt and Cargo.toml that is present and parseable and none for
\* any other, in the order npm, pip, cargo; a package.json that is absent or
\* malformed contributes nothing and keeps no other record back, and no type
\* occurs twice.
C12_OneRecordPerParseableManifest ==
  ManifestsCalled =>
    \A k \in 1..Len(output) :
      /\ \A i \in 1..Len(output[k]) : output[k][i].type \in DOMAIN ManifestFile
      /\ \A t \in DOMAIN ManifestFile :
           Cardinality(RecordsOfType(output[k], t))
             = IF PresentAndParseable(ManifestFile[t]) THEN 1 ELSE 0
      /\ \A i, j \in 1..Len(output[k]) :
           i < j => ProbeRank[output[k][i].type] < ProbeRank[output[k][j].type]

\* a malformed package.json beside a requirements.txt and a Cargo.toml: the
\* call returned the pip record and then the cargo record
C12_Witness ==
  /\ ManifestsCalled
  /\ files.pkg.state = "malformed"
  /\ files.req.state = "valid"
  /\ files.cargo.state = "valid"
  /\ Len(output) >= 1
  /\ Len(output[1]) = 2
  /\ output[1][1].type = "pip"
  /\ output[1][2].type = "cargo"

\* the one npm record of a result
NpmRecord(result) == result[CHOOSE i \in RecordsOfType(result, "npm") : TRUE]

\* C13: for a valid package.json the result holds exactly one npm record; its
\* projectName is the declared name, or the root directory's base name when
\* the name is absent or empty; its description is the declared description,
\* or empty when none is declared; its dependencies are the keys of the
\* declared dependencies mapping in their order, or empty when none is
\* declared.
C13_NpmRoundTrip ==
  (ManifestsCalled /\ PresentAndParseable("pkg")) =>
    \A k \in 1..Len(output) :
      LET content == files.pkg.content
          record == NpmRecord(output[k])
      IN /\ Cardinality(RecordsOfType(output[k], "npm")) = 1
         /\ record.projectName =
              IF "name" \in DOMAIN content /\ content.name # <<>>
              THEN content.name ELSE NameOf(fs, RootInode)
         /\ record.description =
              IF "description" \in DOMAIN content THEN content.description ELSE <<>>
         /\ record.dependencies =
              IF "dependencies" \in DOMAIN content
              THEN [i \in 1..Len(content.dependencies) |-> content.dependencies[i][1]]
              ELSE <<>>

\* a package.json with a name, a description and two dependencies was read
\* back with all three
C13_Witness ==
  /\ ManifestsCalled
  /\ PresentAndParseable("pkg")
  /\ DOMAIN files.pkg.content = {"name", "description", "dependencies"}
  /\ Len(output) >= 1
  /\ NpmRecord(output[1]).projectName = <<"foo-bar">>
  /\ NpmRecord(output[1]).description = <<"A", SP, "test">>
  /\ NpmRecord(output[1]).dependencies = << <<"test-dep">>, <<"left-pad">> >>

PipRecord(result) == result[CHOOSE i \in RecordsOfType(result, "pip") : TRUE]

\* a comment: the first character that is not blank is '#'
IsComment(line) == trimStart(line) # <<>> /\ Head(trimStart(line)) = "#"

IsDependencyLine(line) == trim(line) # <<>> /\ ~IsComment(line)

\* the lines that are neither blank nor comments, trimmed, in file order
TrimmedDependencyLines(content) ==
  LET kept == SelectSeq(split(content, NL), IsDependencyLine)
  IN [i \in 1..Len(kept) |-> trim(kept[i])]

\* C14: the pip record's dependencies are the lines of requirements.txt that
\* are not blank and are not comments, each without its leading and trailing
\* whitespace, in file order; its projectName is the root directory's base
\* name and its description is empty.
C14_PipDependenciesTrimmed ==
  (ManifestsCalled /\ PresentAndParseable("req")) =>
    \A k \in 1..Len(output) :
      /\ Cardinality(RecordsOfType(output[k], "pip")) = 1
      /\ PipRecord(output[k]).dependencies = TrimmedDependencyLines(files.req.content)
      /\ PipRecord(output[k]).projectName = NameOf(fs, RootInode)
      /\ PipRecord(output[k]).description = <<>>

----------------------------------------------------------------------------
(* Properties of analyzeProject                                             *)

Analyzed == pc = "analyzed"

\* the manifest types whose file is present and parseable, in probe order
DetectedTypes ==
  SelectSeq(<<"npm", "pip", "cargo">>, LAMBDA t : PresentAndParseable(ManifestFile[t]))

BaseName == NameOf(fs, RootInode)

\* the name and the description a manifest of the given type declares, with
\* the fallbacks of its record
DeclaredName(type) ==
  IF type = "npm"
    THEN IF "name" \in DOMAIN files.pkg.content /\ files.pkg.content.name # <<>>
         THEN files.pkg.content.name ELSE BaseName
  ELSE IF type = "pip" THEN BaseName
  ELSE IF FirstMatch(files.cargo.content, "name") # JsNull
         THEN FirstMatch(files.cargo.content, "name")[1] ELSE BaseName

DeclaredDescription(type) ==
  IF type = "npm"
    THEN IF "description" \in DOMAIN files.pkg.content
         THEN files.pkg.content.description ELSE <<>>
  ELSE IF type = "pip" THEN <<>>
  ELSE IF FirstMatch(files.cargo.content, "description") # JsNull
         THEN FirstMatch(files.cargo.content, "description")[1] ELSE <<>>

\* C15: analyzeProject takes name and description from the first manifest
\* that is detected, in the order npm, pip, cargo, absent and unparseable
\* files being passed over; without a manifest the name is the root
\* directory's base name and the description is empty.
C15_NameFromFirstManifest ==
  Analyzed =>
    IF DetectedTypes = <<>>
    THEN /\ metadata.name = BaseName
         /\ metadata.description = <<>>
         /\ metadata.dependencies = <<>>
    ELSE /\ metadata.dependencies[1].type = Head(DetectedTypes)
         /\ metadata.name = DeclaredName(Head(DetectedTypes))
         /\ metadata.description = DeclaredDescription(Head(DetectedTypes))

\* package.json is malformed, so the pip record comes first, ahead of a
\* Cargo.toml that declares a name: the name is the directory's base name
C15_Witness ==
  /\ Analyzed
  /\ files.pkg.state = "malformed"
  /\ DetectedTypes = <<"pip", "cargo">>
  /\ FirstMatch(files.cargo.content, "name") # JsNull
  /\ metadata.name = BaseName
  /\ metadata.name # FirstMatch(files.cargo.content, "name")[1]
  /\ metadata.description = <<>>

SeveralDetected == Analyzed /\ Len(DetectedTypes) >= 2

\* the detected manifests that have a description, and those that have a name
Described == SelectSeq(DetectedTypes, LAMBDA t : DeclaredDescription(t) # <<>>)
Named == SelectSeq(DetectedTypes, LAMBDA t : DeclaredName(t) # <<>>)

\* C16 as stated: with several manifests detected, the description is that of
\* the first manifest in probe order that has one, and is empty only when no
\* detected manifest has one; the name is the projectName of the first
\* manifest in probe order whose name is not empty.
C16_Original_FirstDescribedManifest ==
  SeveralDetected =>
    /\ metadata.description =
         IF Described = <<>> THEN <<>> ELSE DeclaredDescription(Head(Described))
    /\ metadata.description = <<>> => Described = <<>>
    /\ metadata.name = IF Named = <<>> THEN BaseName ELSE DeclaredName(Head(Named))

\* C16 amended: with several manifests detected, name and description are the
\* projectName and the description of the first detected manifest alone; the
\* description is empty exactly when that manifest has none, whatever the
\* later manifests declare.
C16_FirstManifestDecides ==
  SeveralDetected =>
    /\ metadata.description = DeclaredDescription(Head(DetectedTypes))
    /\ metadata.description = <<>> <=> DeclaredDescription(Head(DetectedTypes)) = <<>>
    /\ metadata.name = DeclaredName(Head(DetectedTypes))

\* package.json declares no description and Cargo.toml declares one: the
\* description is empty
C16_Witness ==
  /\ SeveralDetected
  /\ Head(DetectedTypes) = "npm"
  /\ DeclaredDescription("npm") = <<>>
  /\ "cargo" \in Range(DetectedTypes)
  /\ DeclaredDescription("cargo") # <<>>
  /\ metadata.description = <<>>
  /\ metadata.name = <<"demo">>

\* package.json declares the field
Declares(field) == field \in DOMAIN files.pkg.content

\* package.json declares the field with a value that is not the empty string
DeclaresNonEmpty(field) ==
  Declares(field) /\ files.pkg.content[field] # JsString(<<>>)

\* the second (k = 2) or third read of package.json fails
RereadFails(k) == "failing" \in DOMAIN files.pkg /\ k \in files.pkg.failing

DeclaredScripts == IF Declares("scripts") THEN files.pkg.content.scripts ELSE <<>>

\* C17 as stated: entryPoint and scripts come from the npm manifest only;
\* entryPoint is the main field if declared, else the bin field if declared,
\* else null, and scripts is the scripts mapping or empty; without an npm
\* record, or when the later read of package.json fails, they are null and
\* empty.
C17_Original_DeclaredMainElseBin ==
  Analyzed =>
    IF ~PresentAndParseable("pkg")
    THEN metadata.entryPoint = JsNull /\ metadata.scripts = <<>>
    ELSE /\ metadata.scripts = IF RereadFails(2) THEN <<>> ELSE DeclaredScripts
         /\ metadata.entryPoint =
              IF RereadFails(3) THEN JsNull
              ELSE IF Declares("main") THEN Some(files.pkg.content.main)
              ELSE IF Declares("bin") THEN Some(files.pkg.content.bin)
              ELSE JsNull

\* C17 amended: as above, with entryPoint the main field if it is declared
\* and not empty, else the bin field if it is declared and not empty, else
\* null; analyzeProject raises an error only when the root itself cannot be
\* reached, whatever the later reads of package.json do.
C17_EntryPointAndScriptsFromNpm ==
  /\ pc = "threw" => ~Accessible(fs, RootInode)
  /\ Analyzed =>
       IF ~PresentAndParseable("pkg")
       THEN metadata.entryPoint = JsNull /\ metadata.scripts = <<>>
       ELSE /\ metadata.scripts = IF RereadFails(2) THEN <<>> ELSE DeclaredScripts
            /\ metadata.entryPoint =
                 IF RereadFails(3) THEN JsNull
                 ELSE IF DeclaresNonEmpty("main") THEN Some(files.pkg.content.main)
                 ELSE IF DeclaresNonEmpty("bin") THEN Some(files.pkg.content.bin)
                 ELSE JsNull

\* package.json declares main and scripts and was detected, and both later
\* reads failed: entryPoint is null and scripts is empty
C17_Witness ==
  /\ Analyzed
  /\ PresentAndParseable("pkg")
  /\ Declares("main") /\ Declares("scripts")
  /\ RereadFails(2) /\ RereadFails(3)
  /\ metadata.dependencies[1].type = "npm"
  /\ metadata.entryPoint = JsNull
  /\ metadata.scripts = <<>>

\* C18: the entryPoint analyzeProject returns is null or one path string,
\* whatever package.json declares as main and as bin.
C18_EntryPointNullOrString ==
  Analyzed =>
    \/ metadata.entryPoint = JsNull
    \/ metadata.entryPoint[1].kind = "string"

\* the root directory holds package.json and a.ts and nothing else
OnlyManifestAndSource ==
  /\ Cardinality(ChildInodes(fs, RootInode)) = 2
  /\ Inodes(fs) = {RootInode} \cup ChildInodes(fs, RootInode)
  /\ HasRootEntry(fs, "pkg")
  /\ HasRootEntry(fs, "ats")

\* package.json declares the field as a string that is not empty
DeclaresText(field) == Declares(field) /\ files.pkg.content[field] # <<>>

\* C19: a directory that holds a valid package.json with a name and a
\* description and one other file, a.ts, is analysed to that name, that
\* description, the language TypeScript, at least one manifest and a
\* directory as the structure, in whichever order the directory lists the two.
C19_TypeScriptProjectEndToEnd ==
  (/\ Analyzed
   /\ OnlyManifestAndSource
   /\ PresentAndParseable("pkg")
   /\ DeclaresText("name")
   /\ DeclaresText("description")) =>
    /\ metadata.name = files.pkg.content.name
    /\ metadata.description = files.pkg.content.description
    /\ metadata.language = <<"TypeScript">>
    /\ Len(metadata.dependencies) >= 1
    /\ metadata.structure.type = "directory"

----------------------------------------------------------------------------
(* Properties of generateInstallation                                       *)

InstallationCalled == pc = "call" /\ input.op = "generateInstallation"

InstallationHeading == <<NL, "## Installation", NL, NL>>

\* the commands of a document: what stands on the line after an opening
\* fence, in the order of the document
CommandsIn(doc) ==
  LET opened == SelectSeq([i \in 1..Len(doc) |-> i],
                          LAMBDA i : doc[i] = FENCE_BASH /\ i + 2 <= Len(doc))
  IN [k \in 1..Len(opened) |-> doc[opened[k] + 2]]

CountOf(doc, atom) == Cardinality({i \in 1..Len(doc) : doc[i] = atom})

\* the commands of each manifest type
CommandsOfType ==
  [npm |-> <<"npm install", "yarn install">>,
   pip |-> <<"pip install -r requirements.txt">>,
   cargo |-> <<"cargo build">>,
   other |-> <<>>]

RECURSIVE CommandsFor(_)
CommandsFor(manifests) ==
  IF manifests = <<>> THEN <<>>
  ELSE CommandsOfType[Head(manifests).type] \o CommandsFor(Tail(manifests))

\* C20 amended: generateInstallation returns the empty string for no
\* manifests; otherwise the heading followed by the fenced command blocks of
\* the npm, pip and cargo manifests in the order of the sequence (two blocks
\* for npm, joined by 'or'), a manifest of type 'other' adding nothing.
C20_InstallationBlocksInOrder ==
  InstallationCalled =>
    \A k \in 1..Len(output) :
      IF input.manifests = <<>> THEN output[k] = <<>>
      ELSE /\ SubSeq(output[k], 1, 4) = InstallationHeading
           /\ CommandsIn(output[k]) = CommandsFor(input.manifests)
           /\ CountOf(output[k], FENCE) = CountOf(output[k], FENCE_BASH)
           /\ CountOf(output[k], "or") = CountOf(CommandsIn(output[k]), "yarn install")

\* C20 as stated: as above, and every manifest of the sequence has a fenced
\* command block of its own in the output (npm a second one for yarn).
C20_Original_BlockPerManifest ==
  /\ C20_InstallationBlocksInOrder
  /\ InstallationCalled =>
       \A k \in 1..Len(output) :
         CountOf(output[k], FENCE_BASH)
           = Len(input.manifests) + CountOf(CommandsIn(output[k]), "yarn install")

\* a cargo, an 'other' and an npm manifest: the commands are cargo build,
\* npm install, yarn install
C20_Witness ==
  /\ InstallationCalled
  /\ Len(output) >= 1
  /\ Len(input.manifests) = 3
  /\ input.manifests[1].type = "cargo"
  /\ input.manifests[2].type = "other"
  /\ input.manifests[3].type = "npm"
  /\ CommandsIn(output[1]) = <<"cargo build", "npm install", "yarn install">>

----------------------------------------------------------------------------
(* C21: generateUsage                                                       *)

UsageCalled == pc = "call" /\ input.op = "generateUsage"

\* the list item of one script
ScriptItem(entry) ==
  <<"-", SP, TICK, "npm run", SP>> \o entry[1] \o <<TICK, ":", SP>> \o entry[2] \o <<NL>>

\* the command block of the entry point
NodeBlock(entryPoint) ==
  <<FENCE_BASH, NL, "node", SP>> \o entryPoint \o <<NL, FENCE, NL>>

HasEntryPoint(md) == md.entryPoint # JsNull /\ md.entryPoint[1].text # <<>>

----------------------------------------------------------------------------
(* C23, C24: loadConfig                                                     *)

LoadConfigCalled == pc = "call" /\ input.op = "loadConfig"

\* the file gives the option a value: the field is there and is not null
Specifies(content, field) == Has(content, field) /\ content[field] # JsNull

\* the value the file gives the option
Specified(content, field) ==
  IF field \in {"maxDepth", "includeHiddenFiles"} THEN content[field][1]
  ELSE content[field]

\* C23: loadConfig always returns a configuration with all four fields:
\* the defaults (no excluded section, no custom content, depth 3, hidden
\* files off) when .readmerc.json is absent, unreadable or not JSON, and for
\* a JSON object the file's value of every option it gives and the default
\* of every other.
C23_LoadConfigTotal ==
  LoadConfigCalled =>
    \A k \in 1..Len(output) :
      /\ DOMAIN output[k] = ConfigFields
      /\ IF files.rc.state # "valid" THEN output[k] = DefaultConfig
         ELSE \A field \in ConfigFields :
                output[k][field] =
                  IF Specifies(files.rc.content, field)
                    THEN Specified(files.rc.content, field)
                  ELSE DefaultConfig[field]

\* the file gives the depth and the exclusions and omits the rest
C23_Witness ==
  /\ LoadConfigCalled
  /\ Len(output) >= 1
  /\ files.rc = ValidFile([maxDepth |-> Some(2), excludeSections |-> <<"usage">>])
  /\ output[1] = [excludeSections |-> <<"usage">>, customContent |-> EmptyMap,
                  maxDepth |-> 2, includeHiddenFiles |-> FALSE]

\* C24: whatever .readmerc.json holds (maxDepth omitted, null, zero or
\* negative), the configuration loadConfig returns has a positive maxDepth.
C24_MaxDepthPositive ==
  LoadConfigCalled => \A k \in 1..Len(output) : output[k].maxDepth > 0

----------------------------------------------------------------------------
(* C22: generateStructure, formatTree                                       *)

StructureCalled == pc = "call" /\ input.op = "generateStructure"

\* the nodes of a tree with their depths, a node before its children and
\* the children in their order
RECURSIVE PreOrder(_, _)
RECURSIVE PreOrderAll(_, _)
PreOrderAll(children, depth) ==
  IF children = <<>> THEN <<>>
  ELSE PreOrder(Head(children), depth) \o PreOrderAll(Tail(children), depth)

PreOrder(node, depth) ==
  <<[node |-> node, depth |-> depth]>> \o PreOrderAll(node.children, depth + 1)

Spaces(n) == [i \in 1..n |-> SP]

\* the line of one node: two spaces per level, the name, '/' for a directory
TreeLine(x) ==
  Spaces(2 * x.depth) \o x.node.name
    \o (IF x.node.type = "directory" THEN <<"/">> ELSE <<>>) \o <<NL>>

RECURSIVE Concat(_)
Concat(texts) == IF texts = <<>> THEN <<>> ELSE Head(texts) \o Concat(Tail(texts))

\* the descendants of the root no deeper than maxDepth, in pre-order
ShownNodes(tree, maxDepth) ==
  SelectSeq(Tail(PreOrder(tree, 0)), LAMBDA x : x.depth <= maxDepth)

TreeHeight(tree) ==
  LET xs == PreOrder(tree, 0)
  IN CHOOSE d \in 0..Len(xs) :
       /\ \E k \in 1..Len(xs) : xs[k].depth = d
       /\ \A k \in 1..Len(xs) : xs[k].depth <= d

\* C22: between the heading with the opening fence and the closing fence,
\* the structure section has exactly one line for each descendant of the
\* root at depth 1..maxDepth, in pre-order, made of two spaces per level,
\* the name and '/' for a directory; the root and the nodes deeper than
\* maxDepth have no line and nothing marks the cut.
C22_StructureLines ==
  StructureCalled =>
    \A k \in 1..Len(output) :
      LET shown == ShownNodes(input.tree, input.maxDepth)
      IN output[k] =
           <<NL, "## Project Structure", NL, NL, FENCE, NL>>
           \o Concat([j \in 1..Len(shown) |-> TreeLine(shown[j])])
           \o <<FENCE, NL, NL>>

\* a tree of height 3 rendered to depth 2: lines of depth 1 and 2, a file
\* among them, and a node of depth 3 left out
C22_Witness ==
  /\ StructureCalled
  /\ Len(output) >= 1
  /\ input.maxDepth = 2
  /\ TreeHeight(input.tree) = 3
  /\ \E j \in 1..Len(ShownNodes(input.tree, 2)) :
       /\ ShownNodes(input.tree, 2)[j].depth = 2
       /\ ShownNodes(input.tree, 2)[j].node.type = "file"
       /\ Occurs(<<NL>> \o TreeLine(ShownNodes(input.tree, 2)[j]), output[1])
  /\ Len(ShownNodes(input.tree, 2)) < Len(PreOrder(input.tree, 0)) - 1
  /\ CountOf(output[1], NL) = 6 + Len(ShownNodes(input.tree, 2))

----------------------------------------------------------------------------
(* C25: classifyDirectories                                                 *)

ClassifyCalled == pc = "call" /\ input.op = "classifyDirectories"

\* the names of each bucket in every spelling the trees use
SourceNames == {<<"src">>, <<"lib">>, <<"source">>, <<"app">>}
TestNames == {<<"test">>, <<"tests">>, <<"Tests">>, <<"__tests__">>, <<"spec">>, <<"specs">>}
ConfigNames == {<<"config">>, <<"configuration">>, <<DOT, "config">>}

\* the paths of the directories of a tree with a name of the set, in pre-order
DirectoriesNamed(tree, names) ==
  LET dirs == SelectSeq(PreOrder(tree, 0),
                        LAMBDA x : x.node.type = "directory" /\ x.node.name \in names)
  IN [j \in 1..Len(dirs) |-> dirs[j].node.path]

\* C25: the source, test and config buckets hold, in pre-order and the
\* root included, the paths of the directories whose lower-cased name is a
\* source, test or config name; every other directory and every file is in
\* no bucket, and no path is in two buckets.
C25_ClassifyDirectories ==
  ClassifyCalled =>
    \A k \in 1..Len(output) :
      /\ output[k].source = DirectoriesNamed(input.node, SourceNames)
      /\ output[k].test = DirectoriesNamed(input.node, TestNames)
      /\ output[k].config = DirectoriesNamed(input.node, ConfigNames)
      /\ Range(output[k].source) \cap Range(output[k].test) = {}
      /\ Range(output[k].source) \cap Range(output[k].config) = {}
      /\ Range(output[k].test) \cap Range(output[k].config) = {}

\* src at the root with Tests, .config and a file named test in it: one
\* path in each bucket, the file in none
C25_Witness ==
  /\ ClassifyCalled
  /\ Len(output) >= 1
  /\ input.node.name = <<"src">>
  /\ Len(input.node.children) = 3
  /\ output[1].source = <<input.node.path>>
  /\ output[1].test = <<join(input.node.path, <<"Tests">>)>>
  /\ output[1].config = <<join(input.node.path, <<DOT, "config">>)>>
  /\ \E j \in 1..3 : input.node.children[j].type = "file"

----------------------------------------------------------------------------
(* C29: detectLanguage, extensions outside the table                        *)

RecognizedExtensions ==
  { <<DOT, e>> : e \in {"ts", "js", "py", "rs", "go", "java", "cpp", "c", "rb", "php"} }

\* file i has an extension outside the table that is counted more often
\* than every other, or as often as the greatest and met first
UnrecognizedLeads(fileList, i) ==
  /\ i \in WithExtension(fileList)
  /\ ExtensionAt(fileList, i) \notin RecognizedExtensions
  /\ \A j \in WithExtension(fileList) : Wins(fileList, i, j)

\* C29: the tally counts the extensions outside the table with those inside
\* it: when such an extension has the greatest count, or ties for it and is
\* met first, the result is 'Unknown', files with recognized extensions in
\* the input notwithstanding.
C29_UnrecognizedExtensionWins ==
  DetectCalled =>
    \A k \in 1..Len(output) :
      (\E i \in 1..Len(input.files) : UnrecognizedLeads(input.files, i))
        => output[k] = Unknown

\* README.md before a.ts: .md ties with .ts for the greatest count and is
\* met first
C29_Witness ==
  /\ DetectCalled
  /\ Len(output) >= 1
  /\ input.files = << << <<"README", DOT, "md">> >>, << <<"a", DOT, "ts">> >> >>
  /\ UnrecognizedLeads(input.files, 1)
  /\ output[1] = Unknown

----------------------------------------------------------------------------
(* C28: scanDirectoryStructure on symbolic-link cycles                      *)

\* the directory a path leads to, links followed
RECURSIVE DirectoryAt(_, _)
DirectoryAt(f, path) ==
  IF Len(path) <= Len(RootParent) + 1 THEN RootInode
  ELSE Target(f, Lookup(f, DirectoryAt(f, SubSeq(path, 1, Len(path) - 1)), Last(path)))

\* how often the walk along a path is in the directory dir
VisitsOf(f, path, dir) ==
  Cardinality({n \in (Len(RootParent) + 1)..Len(path) :
                 DirectoryAt(f, SubSeq(path, 1, n)) = dir})

HasCycle(f) == \E i \in Inodes(f) : f[i].kind \in LinkKinds

\* C28: on a directory tree with symbolic links to a directory above them
\* the scan ends; the stack of calls never exceeds maxDepth, the tree
\* returned has no node deeper than maxDepth, and along every path of it a
\* directory of the cycle comes again at most maxDepth times.
C28_ScanTerminatesOnCycles ==
  /\ <>(pc \in {"scanned", "threw"})
  /\ [](/\ Len(stack) <= scanMaxDepth
        /\ deepest <= scanMaxDepth)
  /\ [](pc = "scanned" =>
          \A x \in ScannedNodes :
            /\ x.depth <= scanMaxDepth
            /\ x.node.type = "directory" =>
                 VisitsOf(fs, x.node.path, DirectoryAt(fs, x.node.path))
                   <= 1 + scanMaxDepth)

\* a link to its own directory scanned to depth 3: the path loop/loop/loop
\* is a node of depth 3, without children
C28_Witness ==
  /\ pc = "scanned"
  /\ HasCycle(fs)
  /\ scanMaxDepth = 3
  /\ \E x \in ScannedNodes :
       /\ x.depth = 3
       /\ x.node.path = RootParent \o <<<<"proj">>, <<"loop">>, <<"loop">>, <<"loop">>>>
       /\ x.node.children = <<>>
       /\ VisitsOf(fs, x.node.path, RootInode) = 4

----------------------------------------------------------------------------
(* C26: an existing README.md                                               *)

PromptIssued == OverwritePrompt \in Range(console)

\* main has read the user's answer and the answer is yes
UserConfirmed == stdin.read >= 1 /\ stdin.typed[1] = "y"

\* main replaces the content of a README.md that was there
ReadmeReplaced == readmeFile.state = "valid" /\ readmeFile' # readmeFile

\* C26: a README.md that exists is replaced only after the question has
\* been printed and the user has confirmed.
C26_OverwriteOnlyAfterConfirmation ==
  [][ReadmeReplaced => PromptIssued /\ UserConfirmed]_vars

----------------------------------------------------------------------------
(* C27: the depth of the structure section                                  *)

Min(a, b) == IF a <= b THEN a ELSE b

\* a line of the document indented by n levels or more
IndentedBy(n, doc) == Occurs(<<NL>> \o Spaces(2 * n), doc)

\* C27: the scan of a full run is made with depth 3 whatever the
\* configuration says; the document has no line of a node deeper than
\* min(config.maxDepth, 3), and with a configured maxDepth of 3 or more the
\* structure section and the document are those of maxDepth 3.
C27_StructureDepthCapped ==
  /\ scanMaxDepth = DefaultScanDepth
  /\ pc = "done" =>
       /\ ~IndentedBy(Min(config.maxDepth, 3) + 1, readme)
       /\ \A x \in ScannedNodes : x.depth <= 3
       /\ config.maxDepth >= 3 =>
            LET three == [config EXCEPT !.maxDepth = 3]
            IN /\ generated.structure = generateStructure(metadata.structure, 3)
               /\ readme = assembleSections(
                             MergeSections(GeneratedSections(metadata, three), three))

\* a directory tree of depth 4 and maxDepth 4: the document has a line of
\* depth 3 and is the document of maxDepth 3
C27_Witness ==
  /\ pc = "done"
  /\ config.maxDepth = 4
  /\ \E i \in Inodes(fs) : FsDepth(fs, i) = 4
  /\ IndentedBy(3, readme)
  /\ ~IndentedBy(4, readme)
  /\ readmeFile = ValidFile(readme)

----------------------------------------------------------------------------
(* C30: includeHiddenFiles                                                  *)

HiddenName(name) ==
  \/ name[1] = DOT /\ name # <<DOT, "gitignore">>
  \/ name \in {<<"node_modules">>, <<"dist">>}

\* the tree of a readable directory tree, read off the disk: the entries in
\* the order of the listing, without the hidden ones, down to depth 3
RECURSIVE VisibleTree(_, _, _, _)
VisibleTree(f, i, path, depth) ==
  IF StatOf(f, i) = "file" THEN FileNode(NameOf(f, i), path)
  ELSE LET cs == SelectSeq(SortedSeq(ChildInodes(f, i)),
                           LAMBDA c : ~HiddenName(NameOf(f, c)))
       IN [DirNode(NameOf(f, i), path) EXCEPT
             !.children =
                IF depth >= 3 THEN <<>>
                ELSE [k \in 1..Len(cs) |->
                        VisibleTree(f, cs[k], join(path, NameOf(f, cs[k])), depth + 1)]]

====
